---- MODULE Spec2Model ----
(***************************************************************************)
(* Model of the project scaffolder (scripts/init-project.js, the script    *)
(* that follows the README text in src/README.md): main() and the phases   *)
(* it calls, the configuration record the prompts fill, the directories    *)
(* and files the run creates, and the exit status of the process.          *)
(*                                                                         *)
(* Strings are TLA+ strings, handled character by character (Len, SubSeq,  *)
(* \o), so that the regular-expression replacements of the script are      *)
(* computed as String.prototype.replace computes them.  The content of     *)
(* package.json is represented by the JSON value it denotes.               *)
(***************************************************************************)
EXTENDS Naturals, Integers, Sequences, FiniteSets, TLC

(***************************************************************************)
(* Strings                                                                 *)
(***************************************************************************)

Char(s, i) == SubSeq(s, i, i)

UpperLetters == "ABCDEFGHIJKLMNOPQRSTUVWXYZ"
LowerLetters == "abcdefghijklmnopqrstuvwxyz"

\* One character of String.prototype.toLowerCase (ASCII letters).
LowerChar(c) ==
  IF \E k \in 1..Len(UpperLetters) : Char(UpperLetters, k) = c
  THEN Char(LowerLetters, CHOOSE k \in 1..Len(UpperLetters) : Char(UpperLetters, k) = c)
  ELSE c

RECURSIVE toLowerCase(_)
toLowerCase(s) ==
  IF Len(s) = 0 THEN "" ELSE LowerChar(Char(s, 1)) \o toLowerCase(SubSeq(s, 2, Len(s)))

\* JavaScript's a || b on strings: the empty string is falsy.
OrElse(a, b) == IF a = "" THEN b ELSE a

\* Whether needle occurs in s.
Contains(s, needle) ==
  \E i \in 1..(Len(s) + 1) :
     /\ i + Len(needle) - 1 <= Len(s)
     /\ SubSeq(s, i, i + Len(needle) - 1) = needle

(***************************************************************************)
(* Regular expressions and String.prototype.replace with the g flag.  A    *)
(* pattern is the sequence of its terms: a literal character, the dot (any *)
(* character but a line break), or the assertion $ (end of input; the      *)
(* patterns carry no m flag).                                              *)
(***************************************************************************)

Lit(c) == [kind |-> "lit", ch |-> c]
AnyChar == [kind |-> "any", ch |-> ""]
EndOfInput == [kind |-> "end", ch |-> ""]
Literal(s) == [i \in 1..Len(s) |-> Lit(Char(s, i))]

\* The position after the match of terms k.. of pat at position i of s, or
\* 0 when they do not match there.
RECURSIVE MatchFrom(_, _, _, _)
MatchFrom(pat, k, s, i) ==
  IF k > Len(pat) THEN i
  ELSE IF pat[k].kind = "end"
       THEN IF i = Len(s) + 1 THEN MatchFrom(pat, k + 1, s, i) ELSE 0
       ELSE IF /\ i <= Len(s)
               /\ IF pat[k].kind = "any" THEN Char(s, i) # "\n" ELSE Char(s, i) = pat[k].ch
            THEN MatchFrom(pat, k + 1, s, i + 1)
            ELSE 0

\* GetSubstitution for a pattern without capture groups: $$ is a dollar
\* sign, $& the matched text and $' the text after the match; every other
\* character stands for itself.  (A dollar sign followed by a backquote
\* stands for the text before the match; no input of this model holds a
\* backquote.)  The match is s[i .. e-1].
RECURSIVE GetSubstitution(_, _, _, _, _)
GetSubstitution(repl, j, s, i, e) ==
  IF j > Len(repl) THEN ""
  ELSE LET c == Char(repl, j)
           n == IF j < Len(repl) THEN Char(repl, j + 1) ELSE ""
       IN IF c = "$" /\ n = "$"
          THEN "$" \o GetSubstitution(repl, j + 2, s, i, e)
          ELSE IF c = "$" /\ n = "&"
          THEN SubSeq(s, i, e - 1) \o GetSubstitution(repl, j + 2, s, i, e)
          ELSE IF c = "$" /\ n = "'"
          THEN SubSeq(s, e, Len(s)) \o GetSubstitution(repl, j + 2, s, i, e)
          ELSE c \o GetSubstitution(repl, j + 1, s, i, e)

\* s.replace(/pat/g, repl) from position i on: the matches are found in s
\* from left to right without overlap and the inserted text is not scanned
\* again.
RECURSIVE ReplaceFrom(_, _, _, _)
ReplaceFrom(s, pat, repl, i) ==
  IF i > Len(s) THEN ""
  ELSE LET e == MatchFrom(pat, 1, s, i)
       IN IF e > i
          THEN GetSubstitution(repl, 1, s, i, e) \o ReplaceFrom(s, pat, repl, e)
          ELSE Char(s, i) \o ReplaceFrom(s, pat, repl, i + 1)

ReplaceAll(s, pat, repl) == ReplaceFrom(s, pat, repl, 1)


\* One character of String.prototype.toUpperCase (ASCII letters).
UpperChar(c) ==
  IF \E k \in 1..Len(LowerLetters) : Char(LowerLetters, k) = c
  THEN Char(UpperLetters, CHOOSE k \in 1..Len(LowerLetters) : Char(LowerLetters, k) = c)
  ELSE c

\* The elements of a sequence.
Range(seq) == {seq[k] : k \in 1..Len(seq)}

\* The place of x in seq (x is an element of seq).
IndexOf(seq, x) == CHOOSE k \in 1..Len(seq) : seq[k] = x

\* An object without the key k (JavaScript's delete obj[k]; deleting a key
\* the object does not have changes nothing).
DeleteKey(obj, k) == [x \in (DOMAIN obj) \ {k} |-> obj[x]]

(***************************************************************************)
(* Inputs: the lines typed at the prompts and the template directory the   *)
(* script reads (templates/, beside the script).                           *)
(***************************************************************************)

Names == {"demo", "$&", ""}
Descriptions == {"", "Demo API"}
Authors == {"Alice"}
Emails == {"alice@example.com"}
GithubUsernames == {"alice", "bob"}
DockerAnswers == {"", "alicehub"}
YesNoLines == {"", "y", "Y", "n", "N", "no", "yes"}
DbAnswers == {"", "sqlite"}

\* templates/config/package.json, parsed.
PackageTemplate ==
  [name |-> "nodejs-devops-template",
   version |-> "1.0.0",
   description |-> "Node.js DevOps template",
   author |-> "Your Name <you@example.com>",
   repository |-> [type |-> "git", url |-> "git+https://github.com/your-username/your-app-name.git"],
   bugs |-> [url |-> "https://github.com/your-username/your-app-name/issues"],
   homepage |-> "https://github.com/your-username/your-app-name#readme",
   scripts |-> ("dev" :> "node --watch src/index.js") @@ ("test" :> "jest")
               @@ ("db:generate" :> "drizzle-kit generate")
               @@ ("db:migrate" :> "drizzle-kit migrate")
               @@ ("db:studio" :> "drizzle-kit studio"),
   dependencies |-> ("express" :> "^5.1.0") @@ ("zod" :> "^4.1.0")
                    @@ ("drizzle-orm" :> "^0.44.0")
                    @@ ("@neondatabase/serverless" :> "^1.0.0"),
   devDependencies |-> ("eslint" :> "^9.0.0") @@ ("drizzle-kit" :> "^0.31.0")]

Workflows == <<"lint-and-format.yml", "tests.yml", "docker-build-and-push.yml">>

\* A template directory whose files carry the placeholders, some of them
\* more than once.
FullTemplates ==
  [packageJson |-> PackageTemplate,
   envExample |-> "APP_NAME=your-app-name\nIMAGE=your-docker-username/your-app-name\n",
   dockerfile |-> "FROM node:18-alpine\n",
   composeDev |-> "name: ${PROJECT_NAME:-app}-dev\nimage: ${PROJECT_NAME:-app}\n",
   composeProd |-> "name: ${PROJECT_NAME:-app}-prod\n",
   workflows |-> ("lint-and-format.yml" :> "name: Lint\n")
                 @@ ("tests.yml" :> "env:\n  APP: your-app-name\n")
                 @@ ("docker-build-and-push.yml" :>
                       "tags: ${{ secrets.DOCKER_USERNAME }}/your-app-name\n")]

\* A template directory without database entries in the manifest and
\* without placeholders in the other files.
PlainTemplates ==
  [packageJson |-> [PackageTemplate EXCEPT
                      !.scripts = ("dev" :> "node src/index.js"),
                      !.dependencies = ("express" :> "^5.1.0"),
                      !.devDependencies = ("eslint" :> "^9.0.0")],
   envExample |-> "NODE_ENV=development\n",
   dockerfile |-> "FROM node:20\n",
   composeDev |-> "services: {}\n",
   composeProd |-> "services: {}\n",
   workflows |-> [w \in Range(Workflows) |-> "name: CI\n"]]

TemplateDirs == {FullTemplates, PlainTemplates}

(***************************************************************************)
(* State                                                                   *)
(***************************************************************************)

VARIABLES
  pc,            \* the function the script is in and the place in it
  projectConfig, \* the configuration record
  lastLine,      \* the line the last prompt of collectProjectInfo received
  templates,     \* the template directory
  directories,   \* createProjectStructure's list of directories
  loopIdx,       \* the place of the running for loop in its list
  buf,           \* the running function's local text (or manifest)
  dirs,          \* the directories of the working directory
  files,         \* the files of the working directory: path -> content
  written,       \* the paths this run of the script has written
  phaseLog,      \* the calls main has made and the returns it has seen
  execLog,       \* the child processes run so far, each with its outcome
  warnings,      \* the phases whose failure was logged and passed over
  summaryShown,  \* whether showCompletion has printed the summary
  exitCode,      \* the exit status of the process, -1 while it runs
  failedAt,      \* the place whose operation threw into main(), if one did
  firstRun       \* what an earlier run of the script in this directory left

\* The example Express application (examples/express).
VARIABLES
  users,         \* the rows of the users table: id -> row
  nextId,        \* the next value of the serial column users.id
  issued,        \* the payloads jwttoken.sign has signed so far
  reqs,          \* the requests being handled: slot -> request
  served         \* the number of requests received so far

scriptVars == <<pc, projectConfig, lastLine, templates, directories, loopIdx, buf,
                dirs, files, written, phaseLog, execLog, warnings, summaryShown,
                exitCode, failedAt, firstRun>>

apiVars == <<users, nextId, issued, reqs, served>>

vars == <<scriptVars, apiVars>>

\* let projectConfig = {...}: the record before the first prompt.
InitialConfig ==
  [name |-> "", description |-> "", author |-> "", email |-> "",
   dockerUsername |-> "", githubUsername |-> "", database |-> "postgresql",
   features |-> [docker |-> TRUE, cicd |-> TRUE, database |-> TRUE,
                 redis |-> FALSE, monitoring |-> TRUE]]

Running == -1
NoBuf == ""
NoFiles == [p \in {} |-> ""]

At(fn, at) == pc = [fn |-> fn, at |-> at]
Entry(fn) == [fn |-> fn, at |-> "start"]
Exited == [fn |-> "exited", at |-> ""]
NoFailure == [fn |-> "", at |-> ""]

\* No run of the script has been made in the working directory yet.
NoRun == [done |-> FALSE, cfg |-> InitialConfig, dirs |-> {}, files |-> NoFiles]

\* The bounds of the example application: the requests it handles at a
\* time and the requests it receives in all.
MaxInFlight == 2
MaxRequests == 4

Slots == 1..MaxInFlight
Idle == [pc |-> "idle"]
NoUsers == [id \in {} |-> [email |-> "", role |-> "", password |-> ""]]

\* The example application started on an empty users table, before its
\* first request.
ApiStarted ==
  /\ users = NoUsers
  /\ nextId = 1
  /\ issued = {}
  /\ reqs = [s \in Slots |-> Idle]
  /\ served = 0

\* The script before its first statement, in an empty working directory.
ScriptStarted ==
  /\ pc = Entry("main")
  /\ projectConfig = InitialConfig
  /\ lastLine = ""
  /\ directories = <<>>
  /\ loopIdx = 0
  /\ buf = NoBuf
  /\ dirs = {}
  /\ files = NoFiles
  /\ written = {}
  /\ phaseLog = <<>>
  /\ execLog = <<>>
  /\ warnings = {}
  /\ summaryShown = FALSE
  /\ exitCode = Running
  /\ failedAt = NoFailure
  /\ firstRun = NoRun

\* The script is started in an empty directory; the example application
\* takes no part in its run.
Init ==
  /\ ScriptStarted
  /\ templates \in TemplateDirs
  /\ ApiStarted


(***************************************************************************)
(* Control flow of main() and processTemplateFiles()                       *)
(***************************************************************************)

\* main() with initializeGit called before installDependencies.
MainCallsSwapped ==
  <<"collectProjectInfo", "createProjectStructure", "processTemplateFiles",
    "initializeGit", "installDependencies", "showCompletion">>

\* The calls of main(), in order, after showWelcome().
MainCalls ==
  <<"collectProjectInfo", "createProjectStructure", "processTemplateFiles",
    "installDependencies", "initializeGit", "showCompletion">>

\* processTemplateFiles() with processDockerFiles() called whatever the
\* docker flag is.
TemplateCallsAlwaysDocker(cfg) ==
  <<"processPackageJson", "processEnvFiles", "processDockerFiles">>
  \o (IF cfg.features.cicd THEN <<"processCICDFiles">> ELSE <<>>)
  \o <<"createBaseCodeFiles", "createConfigFiles">>

\* processTemplateFiles() with the base code files made first.
TemplateCallsBaseFirst(cfg) ==
  <<"createBaseCodeFiles", "processPackageJson", "processEnvFiles">>
  \o (IF cfg.features.docker THEN <<"processDockerFiles">> ELSE <<>>)
  \o (IF cfg.features.cicd THEN <<"processCICDFiles">> ELSE <<>>)
  \o <<"createConfigFiles">>

\* The calls of processTemplateFiles(), in order, for a configuration.
TemplateCalls(cfg) ==
  <<"processPackageJson", "processEnvFiles">>
  \o (IF cfg.features.docker THEN <<"processDockerFiles">> ELSE <<>>)
  \o (IF cfg.features.cicd THEN <<"processCICDFiles">> ELSE <<>>)
  \o <<"createBaseCodeFiles", "createConfigFiles">>

TemplateFunctions ==
  {"processPackageJson", "processEnvFiles", "processDockerFiles",
   "processCICDFiles", "createBaseCodeFiles", "createConfigFiles"}

\* Where main() goes on when its call of fn has returned: the next call,
\* or the finally block after the last one.
MainNext(fn) ==
  LET k == IndexOf(MainCalls, fn)
  IN IF k < Len(MainCalls) THEN Entry(MainCalls[k + 1])
     ELSE [fn |-> "main", at |-> "finally"]

\* Whether the return of fn gives control back to main().
ReturnsToMain(fn, cfg) ==
  IF fn \in TemplateFunctions
  THEN IndexOf(TemplateCalls(cfg), fn) = Len(TemplateCalls(cfg))
  ELSE TRUE

\* The function of main() that fn runs in.
MainCallOf(fn) == IF fn \in TemplateFunctions THEN "processTemplateFiles" ELSE fn

\* The place the script is at when fn has returned.
ReturnPc(fn, cfg) ==
  IF ReturnsToMain(fn, cfg) THEN MainNext(MainCallOf(fn))
  ELSE Entry(TemplateCalls(cfg)[IndexOf(TemplateCalls(cfg), fn) + 1])

\* What main() has seen once fn has returned: the return of its call and,
\* unless that was the last one, the next call.
ReturnLog(fn, cfg, log) ==
  IF ReturnsToMain(fn, cfg)
  THEN LET m == MainCallOf(fn)
           next == MainNext(m)
       IN log \o <<[ev |-> "return", fn |-> m]>>
              \o (IF next.fn = "main" THEN <<>> ELSE <<[ev |-> "call", fn |-> next.fn]>>)
  ELSE log

\* fn returns, under the configuration cfg.
Return(fn, cfg) ==
  /\ pc' = ReturnPc(fn, cfg)
  /\ phaseLog' = ReturnLog(fn, cfg, phaseLog)

\* A catch block of main() that prints the message and does not call
\* process.exit(1): the process ends with status 0.
ThrowSwallowed ==
  /\ pc' = Exited
  /\ exitCode' = 0
  /\ failedAt' = pc
  /\ UNCHANGED <<projectConfig, lastLine, templates, directories, loopIdx, buf, dirs,
                 files, written, phaseLog, execLog, warnings, summaryShown, firstRun,
                 apiVars>>

\* A catch block of main() that removes what the run has made before it
\* ends the process.
ThrowCleansUp ==
  /\ pc' = Exited
  /\ exitCode' = 1
  /\ failedAt' = pc
  /\ dirs' = {}
  /\ files' = NoFiles
  /\ UNCHANGED <<projectConfig, lastLine, templates, directories, loopIdx, buf,
                 written, phaseLog, execLog, warnings, summaryShown, firstRun,
                 apiVars>>

\* An exception reaches the catch block of main(): the message is printed
\* and process.exit(1) ends the process.
Throw ==
  /\ pc' = Exited
  /\ exitCode' = 1
  /\ failedAt' = pc
  /\ UNCHANGED <<projectConfig, lastLine, templates, directories, loopIdx, buf, dirs,
                 files, written, phaseLog, execLog, warnings, summaryShown, firstRun,
                 apiVars>>

\* The script as the parser reads it.  In processCICDFiles the regular
\* expression literal /\\$\\{\\{ secrets\\.DOCKER_USERNAME \\}\\}\\/your-app-name/g
\* ends at the slash that follows the escaped backslash, and your, which
\* follows, is read as its flags: node rejects the file with a SyntaxError
\* and status 1 before any statement of it runs.  Every other action of
\* this model is what the script does when the literal is read as the
\* pattern between its first and its last slash, as its author meant it.
scriptRejected ==
  /\ At("main", "start")
  /\ ~firstRun.done
  /\ pc' = Exited
  /\ exitCode' = 1
  /\ UNCHANGED <<projectConfig, lastLine, templates, directories, loopIdx, buf, dirs,
                 files, written, phaseLog, execLog, warnings, summaryShown, failedAt,
                 firstRun, apiVars>>

\* main() up to its first call: showWelcome() prints the banner.
main ==
  /\ At("main", "start")
  /\ pc' = Entry(MainCalls[1])
  /\ phaseLog' = <<[ev |-> "call", fn |-> MainCalls[1]]>>
  /\ UNCHANGED <<projectConfig, lastLine, templates, directories, loopIdx, buf, dirs,
                 files, written, execLog, warnings, summaryShown, exitCode, failedAt,
                 firstRun, apiVars>>

\* The finally block of main(): rl.close(); nothing is left to run and the
\* process ends with status 0.
mainFinally ==
  /\ At("main", "finally")
  /\ pc' = Exited
  /\ exitCode' = 0
  /\ UNCHANGED <<projectConfig, lastLine, templates, directories, loopIdx, buf, dirs,
                 files, written, phaseLog, execLog, warnings, summaryShown, failedAt,
                 firstRun, apiVars>>

(***************************************************************************)
(* collectProjectInfo                                                      *)
(***************************************************************************)

\* The user who runs the script a second time in the directory of a first
\* run gives the answers of the first run: the field the prompt before the
\* place next has set is the one the first run ended with.
SameAnswers(cfg, next) ==
  LET old == firstRun.cfg
  IN firstRun.done =>
       CASE next = "description" -> cfg.name = old.name
         [] next = "author" -> cfg.description = old.description
         [] next = "email" -> cfg.author = old.author
         [] next = "githubUsername" -> cfg.email = old.email
         [] next = "dockerUsername" -> cfg.githubUsername = old.githubUsername
         [] next = "docker" -> cfg.dockerUsername = old.dockerUsername
         [] next = "cicd" -> cfg.features.docker = old.features.docker
         [] next = "database" -> cfg.features.cicd = old.features.cicd
         [] next = "dbType" -> cfg.features.database = old.features.database
         [] next = "redis" -> /\ cfg.features.database = old.features.database
                              /\ cfg.database = old.database
         [] next = "monitoring" -> cfg.features.redis = old.features.redis
         [] next = "end" -> cfg.features.monitoring = old.features.monitoring

\* A prompt of collectProjectInfo is answered with line: the configuration
\* becomes cfg and the function goes on at the prompt next.
Answer(line, cfg, next) ==
  /\ SameAnswers(cfg, next)
  /\ lastLine' = line
  /\ projectConfig' = cfg
  /\ pc' = [fn |-> "collectProjectInfo", at |-> next]
  /\ UNCHANGED <<templates, directories, loopIdx, buf, dirs, files, written, phaseLog,
                 execLog, warnings, summaryShown, exitCode, failedAt, firstRun,
                 apiVars>>

\* The comparison without toLowerCase().
YesUnlessLowerN(line) == line # "n"

\* The answer to a question whose default is yes.
YesUnlessN(line) == toLowerCase(line) # "n"

\* The answer to a question whose default is no.
NoUnlessY(line) == toLowerCase(line) = "y"

askName ==
  /\ At("collectProjectInfo", "start")
  /\ \E line \in Names :
       Answer(line, [projectConfig EXCEPT !.name = line], "description")

askDescription ==
  /\ At("collectProjectInfo", "description")
  /\ \E line \in Descriptions :
       Answer(line,
              [projectConfig EXCEPT !.description =
                 OrElse(line, projectConfig.name \o " - A Node.js API with DevOps practices")],
              "author")

askAuthor ==
  /\ At("collectProjectInfo", "author")
  /\ \E line \in Authors :
       Answer(line, [projectConfig EXCEPT !.author = line], "email")

askEmail ==
  /\ At("collectProjectInfo", "email")
  /\ \E line \in Emails :
       Answer(line, [projectConfig EXCEPT !.email = line], "githubUsername")

askGithubUsername ==
  /\ At("collectProjectInfo", "githubUsername")
  /\ \E line \in GithubUsernames :
       Answer(line, [projectConfig EXCEPT !.githubUsername = line], "dockerUsername")

askDockerUsername ==
  /\ At("collectProjectInfo", "dockerUsername")
  /\ \E line \in DockerAnswers :
       Answer(line,
              [projectConfig EXCEPT !.dockerUsername =
                 OrElse(line, projectConfig.githubUsername)],
              "docker")

askDocker ==
  /\ At("collectProjectInfo", "docker")
  /\ \E line \in YesNoLines :
       Answer(line, [projectConfig EXCEPT !.features.docker = YesUnlessN(line)], "cicd")

askCicd ==
  /\ At("collectProjectInfo", "cicd")
  /\ \E line \in YesNoLines :
       Answer(line, [projectConfig EXCEPT !.features.cicd = YesUnlessN(line)], "database")

askDatabase ==
  /\ At("collectProjectInfo", "database")
  /\ \E line \in YesNoLines :
       Answer(line, [projectConfig EXCEPT !.features.database = YesUnlessN(line)],
              IF YesUnlessN(line) THEN "dbType" ELSE "redis")

\* The database type prompt with a check of the answer against the three
\* types the prompt lists.
askDbTypeValidated ==
  /\ At("collectProjectInfo", "dbType")
  /\ \E line \in DbAnswers :
       Answer(line,
              [projectConfig EXCEPT !.database =
                 IF line \in {"postgresql", "mysql", "mongodb"} THEN line
                 ELSE "postgresql"],
              "redis")

askDbType ==
  /\ At("collectProjectInfo", "dbType")
  /\ \E line \in DbAnswers :
       Answer(line, [projectConfig EXCEPT !.database = OrElse(line, "postgresql")], "redis")

askRedis ==
  /\ At("collectProjectInfo", "redis")
  /\ \E line \in YesNoLines :
       Answer(line, [projectConfig EXCEPT !.features.redis = NoUnlessY(line)], "monitoring")

askMonitoring ==
  /\ At("collectProjectInfo", "monitoring")
  /\ \E line \in YesNoLines :
       Answer(line, [projectConfig EXCEPT !.features.monitoring = YesUnlessN(line)],
              "end")

\* collectProjectInfo returns; its local variables are gone.
collectProjectInfoReturn ==
  /\ At("collectProjectInfo", "end")
  /\ lastLine' = ""
  /\ Return("collectProjectInfo", projectConfig)
  /\ UNCHANGED <<projectConfig, templates, directories, loopIdx, buf, dirs, files,
                 written, execLog, warnings, summaryShown, exitCode, failedAt, firstRun,
                 apiVars>>

\* question() throws (readline refuses a question on a closed interface):
\* the await in collectProjectInfo throws into main().
questionThrows ==
  /\ pc.fn = "collectProjectInfo"
  /\ pc.at # "end"
  /\ Throw

\* The input ends before the line of a prompt arrives: question() never
\* resolves, nothing is left to run and the process ends with status 0,
\* main() still waiting.
inputEnds ==
  /\ pc.fn = "collectProjectInfo"
  /\ pc.at # "end"
  /\ pc' = Exited
  /\ exitCode' = 0
  /\ UNCHANGED <<projectConfig, lastLine, templates, directories, loopIdx, buf, dirs,
                 files, written, phaseLog, execLog, warnings, summaryShown, failedAt,
                 firstRun, apiVars>>


(***************************************************************************)
(* createProjectStructure                                                  *)
(***************************************************************************)

BaseDirectories ==
  <<"src", "src/config", "src/controllers", "src/middleware", "src/models",
    "src/routes", "src/services", "src/utils", "src/validations",
    "tests", "tests/unit", "tests/integration", "logs", "scripts">>

\* The list with nginx added under the database flag.
DirectoryListByDatabase(features) ==
  BaseDirectories
  \o (IF features.database THEN <<"nginx">> ELSE <<>>)
  \o (IF features.cicd THEN <<".github", ".github/workflows">> ELSE <<>>)

\* The list without the directories of the workflows.
DirectoryListNoWorkflows(features) ==
  BaseDirectories
  \o (IF features.docker THEN <<"nginx">> ELSE <<>>)

\* The list createProjectStructure builds from the feature flags.
DirectoryList(features) ==
  BaseDirectories
  \o (IF features.docker THEN <<"nginx">> ELSE <<>>)
  \o (IF features.cicd THEN <<".github", ".github/workflows">> ELSE <<>>)

\* The directories above path: what { recursive: true } creates with it.
Parents(path) == {SubSeq(path, 1, k - 1) : k \in {j \in 1..Len(path) : Char(path, j) = "/"}}

createProjectStructure ==
  /\ At("createProjectStructure", "start")
  /\ directories' = DirectoryList(projectConfig.features)
  /\ loopIdx' = 1
  /\ pc' = [fn |-> "createProjectStructure", at |-> "mkdir"]
  /\ UNCHANGED <<projectConfig, lastLine, templates, buf, dirs, files, written,
                 phaseLog, execLog, warnings, summaryShown, exitCode, failedAt,
                 firstRun, apiVars>>

\* One turn of the loop with fs.mkdir(dir), which fails on a directory that
\* exists and on one whose parent does not.
mkdirNotRecursive ==
  /\ At("createProjectStructure", "mkdir")
  /\ \E ok \in BOOLEAN :
       IF /\ ok
          /\ directories[loopIdx] \notin dirs
          /\ Parents(directories[loopIdx]) \subseteq dirs
       THEN /\ dirs' = dirs \cup {directories[loopIdx]}
            /\ IF loopIdx < Len(directories)
               THEN /\ loopIdx' = loopIdx + 1
                    /\ UNCHANGED <<pc, phaseLog>>
               ELSE /\ loopIdx' = 0
                    /\ Return("createProjectStructure", projectConfig)
            /\ UNCHANGED <<projectConfig, lastLine, templates, directories, buf, files,
                           written, execLog, warnings, summaryShown, exitCode, failedAt,
                           firstRun, apiVars>>
       ELSE Throw

\* One turn of the loop: fs.mkdir(dir, { recursive: true }), which an
\* existing directory does not fail; the function returns after the last.
mkdir ==
  /\ At("createProjectStructure", "mkdir")
  /\ \E ok \in BOOLEAN :
       IF ok
       THEN /\ dirs' = dirs \cup {directories[loopIdx]} \cup Parents(directories[loopIdx])
            /\ IF loopIdx < Len(directories)
               THEN /\ loopIdx' = loopIdx + 1
                    /\ UNCHANGED <<pc, phaseLog>>
               ELSE /\ loopIdx' = 0
                    /\ Return("createProjectStructure", projectConfig)
            /\ UNCHANGED <<projectConfig, lastLine, templates, directories, buf, files,
                           written, execLog, warnings, summaryShown, exitCode, failedAt,
                           firstRun, apiVars>>
       ELSE Throw

(***************************************************************************)
(* processTemplateFiles and the functions it calls                         *)
(***************************************************************************)

\* files with content written at path (fs.writeFile replaces the file).
WriteFile(fs, path, content) ==
  [p \in (DOMAIN fs) \cup {path} |-> IF p = path THEN content ELSE fs[p]]

\* A step of fn at the place at that reads a template into the local
\* variable and goes on at next, or throws.
ReadStep(fn, at, content, next) ==
  /\ At(fn, at)
  /\ \E ok \in BOOLEAN :
       IF ok
       THEN /\ buf' = content
            /\ pc' = [fn |-> fn, at |-> next]
            /\ UNCHANGED <<projectConfig, lastLine, templates, directories, loopIdx,
                           dirs, files, written, phaseLog, execLog, warnings,
                           summaryShown, exitCode, failedAt, firstRun, apiVars>>
       ELSE Throw

\* A step of fn at the place at that writes content to path and goes on at
\* next, or throws; it throws when the directory of path does not exist.
WriteStep(fn, at, path, content, next) ==
  /\ At(fn, at)
  /\ \E ok \in BOOLEAN :
       IF ok /\ Parents(path) \subseteq dirs
       THEN /\ files' = WriteFile(files, path, content)
            /\ written' = written \cup {path}
            /\ pc' = [fn |-> fn, at |-> next]
            /\ UNCHANGED <<projectConfig, lastLine, templates, directories, loopIdx,
                           buf, dirs, phaseLog, execLog, warnings, summaryShown,
                           exitCode, failedAt, firstRun, apiVars>>
       ELSE Throw

\* The last step of fn, at the place at: it writes content to path and fn
\* returns, or it throws.
LastWriteStep(fn, at, path, content) ==
  /\ At(fn, at)
  /\ \E ok \in BOOLEAN :
       IF ok /\ Parents(path) \subseteq dirs
       THEN /\ files' = WriteFile(files, path, content)
            /\ written' = written \cup {path}
            /\ buf' = NoBuf
            /\ Return(fn, projectConfig)
            /\ UNCHANGED <<projectConfig, lastLine, templates, directories, loopIdx,
                           dirs, execLog, warnings, summaryShown, exitCode, failedAt,
                           firstRun, apiVars>>
       ELSE Throw

processTemplateFiles ==
  /\ At("processTemplateFiles", "start")
  /\ pc' = Entry(TemplateCalls(projectConfig)[1])
  /\ UNCHANGED <<projectConfig, lastLine, templates, directories, loopIdx, buf, dirs,
                 files, written, phaseLog, execLog, warnings, summaryShown, exitCode,
                 failedAt, firstRun, apiVars>>

GithubUrl(cfg) == "https://github.com/" \o cfg.githubUsername \o "/" \o cfg.name

\* The fields with the homepage left without its fragment.
SetManifestFieldsBareHomepage(tpl, cfg) ==
  [tpl EXCEPT
     !.name = cfg.name,
     !.description = cfg.description,
     !.author = cfg.author \o " <" \o cfg.email \o ">",
     !.repository.url = "git+" \o GithubUrl(cfg) \o ".git",
     !.bugs.url = GithubUrl(cfg) \o "/issues",
     !.homepage = GithubUrl(cfg)]

\* The fields with the repository URL left without its git+ prefix.
SetManifestFieldsPlainUrl(tpl, cfg) ==
  [tpl EXCEPT
     !.name = cfg.name,
     !.description = cfg.description,
     !.author = cfg.author \o " <" \o cfg.email \o ">",
     !.repository.url = GithubUrl(cfg) \o ".git",
     !.bugs.url = GithubUrl(cfg) \o "/issues",
     !.homepage = GithubUrl(cfg) \o "#readme"]

\* The fields processPackageJson sets from the configuration.
SetManifestFields(tpl, cfg) ==
  [tpl EXCEPT
     !.name = cfg.name,
     !.description = cfg.description,
     !.author = cfg.author \o " <" \o cfg.email \o ">",
     !.repository.url = "git+" \o GithubUrl(cfg) \o ".git",
     !.bugs.url = GithubUrl(cfg) \o "/issues",
     !.homepage = GithubUrl(cfg) \o "#readme"]

\* The deletions without that of the db:studio script.
DeleteDatabaseEntriesButStudio(m) ==
  [m EXCEPT
     !.dependencies = DeleteKey(DeleteKey(@, "drizzle-orm"), "@neondatabase/serverless"),
     !.devDependencies = DeleteKey(@, "drizzle-kit"),
     !.scripts = DeleteKey(DeleteKey(@, "db:generate"), "db:migrate")]

\* The deletions processPackageJson makes when the database is left out.
DeleteDatabaseEntries(m) ==
  [m EXCEPT
     !.dependencies = DeleteKey(DeleteKey(@, "drizzle-orm"), "@neondatabase/serverless"),
     !.devDependencies = DeleteKey(@, "drizzle-kit"),
     !.scripts = DeleteKey(DeleteKey(DeleteKey(@, "db:generate"), "db:migrate"), "db:studio")]

\* The manifest processPackageJson makes of the parsed template.
Manifest(tpl, cfg) ==
  IF cfg.features.database
  THEN SetManifestFields(tpl, cfg)
  ELSE DeleteDatabaseEntries(SetManifestFields(tpl, cfg))

processPackageJsonRead ==
  ReadStep("processPackageJson", "start",
           Manifest(templates.packageJson, projectConfig), "write")

processPackageJsonWrite ==
  LastWriteStep("processPackageJson", "write", "package.json", buf)

AppNamePlaceholder == "your-app-name"
DockerUserPlaceholder == "your-docker-username"

\* The text processEnvFiles makes of the template.
EnvContent(tpl, cfg) ==
  ReplaceAll(ReplaceAll(tpl, Literal(AppNamePlaceholder), cfg.name),
             Literal(DockerUserPlaceholder), cfg.dockerUsername)

processEnvFilesRead ==
  ReadStep("processEnvFiles", "start", EnvContent(templates.envExample, projectConfig),
           "writeExample")

processEnvFilesWriteExample ==
  WriteStep("processEnvFiles", "writeExample", ".env.example", buf, "writeEnv")

processEnvFilesWriteEnv ==
  LastWriteStep("processEnvFiles", "writeEnv", ".env", buf)

\* /\\$\\{PROJECT_NAME:-app\\}/g as the script writes it: each \\ is a
\* backslash, the $ between the first two is the end-of-input assertion,
\* and the braces, which form no quantifier, stand for themselves.
ProjectNamePattern ==
  <<Lit("\\"), EndOfInput, Lit("\\")>> \o Literal("{PROJECT_NAME:-app")
  \o <<Lit("\\")>> \o Literal("}")

\* The template literal `\${PROJECT_NAME:-${projectConfig.name}}`.
ProjectNameDefault(cfg) == "${PROJECT_NAME:-" \o cfg.name \o "}"

\* The text processDockerFiles makes of a compose template.
ComposeContent(tpl, cfg) == ReplaceAll(tpl, ProjectNamePattern, ProjectNameDefault(cfg))

Dockerignore ==
  "node_modules\nnpm-debug.log\n.env\n.env.local\n.env.development\n.env.production\n"
  \o "logs/\ncoverage/\n.nyc_output\n.git\n.gitignore\nREADME.md\nDockerfile\n"
  \o ".dockerignore\ndocker-compose*.yml"

\* fs.copyFile(templates/docker/Dockerfile, 'Dockerfile').
processDockerFilesCopy ==
  WriteStep("processDockerFiles", "start", "Dockerfile", templates.dockerfile, "readDev")

processDockerFilesReadDev ==
  ReadStep("processDockerFiles", "readDev",
           ComposeContent(templates.composeDev, projectConfig), "writeDev")

processDockerFilesWriteDev ==
  WriteStep("processDockerFiles", "writeDev", "docker-compose.dev.yml", buf, "readProd")

processDockerFilesReadProd ==
  ReadStep("processDockerFiles", "readProd",
           ComposeContent(templates.composeProd, projectConfig), "writeProd")

processDockerFilesWriteProd ==
  WriteStep("processDockerFiles", "writeProd", "docker-compose.prod.yml", buf, "ignore")

processDockerFilesIgnore ==
  LastWriteStep("processDockerFiles", "ignore", ".dockerignore", Dockerignore)


\* /\\$\\{\\{ secrets\\.DOCKER_USERNAME \\}\\}\\/your-app-name/g, the
\* pattern the line spells out between its first and its last slash: each
\* \\ is a backslash, the $ is the end-of-input assertion, the dot stands
\* for any character, and the slash after the last \\ is a slash.  (That
\* slash is not escaped, the backslash before it being itself escaped: see
\* scriptRejected.)
ImagePattern ==
  <<Lit("\\"), EndOfInput, Lit("\\"), Lit("{"), Lit("\\")>> \o Literal("{ secrets")
  \o <<Lit("\\"), AnyChar>> \o Literal("DOCKER_USERNAME ")
  \o <<Lit("\\"), Lit("}"), Lit("\\"), Lit("}"), Lit("\\"), Lit("/")>>
  \o Literal(AppNamePlaceholder)

\* The text processCICDFiles makes of a workflow template.
WorkflowContent(tpl, cfg) ==
  ReplaceAll(ReplaceAll(tpl, Literal(AppNamePlaceholder), cfg.name),
             ImagePattern, "${{ secrets.DOCKER_USERNAME }}/" \o cfg.name)

processCICDFiles ==
  /\ At("processCICDFiles", "start")
  /\ loopIdx' = 1
  /\ pc' = [fn |-> "processCICDFiles", at |-> "read"]
  /\ UNCHANGED <<projectConfig, lastLine, templates, directories, buf, dirs, files,
                 written, phaseLog, execLog, warnings, summaryShown, exitCode, failedAt,
                 firstRun, apiVars>>

processCICDFilesRead ==
  /\ At("processCICDFiles", "read")
  /\ ReadStep("processCICDFiles", "read",
              WorkflowContent(templates.workflows[Workflows[loopIdx]], projectConfig),
              "write")

\* The write of one turn of the loop; the function returns after the last.
processCICDFilesWrite ==
  /\ At("processCICDFiles", "write")
  /\ \E ok \in BOOLEAN :
       IF ok /\ Parents(".github/workflows/" \o Workflows[loopIdx]) \subseteq dirs
       THEN /\ files' = WriteFile(files, ".github/workflows/" \o Workflows[loopIdx], buf)
            /\ written' = written \cup {".github/workflows/" \o Workflows[loopIdx]}
            /\ buf' = NoBuf
            /\ IF loopIdx < Len(Workflows)
               THEN /\ loopIdx' = loopIdx + 1
                    /\ pc' = [fn |-> "processCICDFiles", at |-> "read"]
                    /\ UNCHANGED phaseLog
               ELSE /\ loopIdx' = 0
                    /\ Return("processCICDFiles", projectConfig)
            /\ UNCHANGED <<projectConfig, lastLine, templates, directories, dirs,
                           execLog, warnings, summaryShown, exitCode, failedAt,
                           firstRun, apiVars>>
       ELSE Throw

\* src/index.js: the text does not depend on the configuration.
IndexJs ==
  "import 'dotenv/config';\nimport server from './server.js';\n\n"
  \o "const PORT = process.env.PORT || 3000;\n\nserver.listen(PORT, () => {});\n"

\* src/server.js: the text holds the project name in the welcome message.
ServerJs(cfg) ==
  "import express from 'express';\nconst app = express();\n"
  \o "app.get('/', (req, res) => {\n  res.json({\n    message: 'Welcome to "
  \o cfg.name \o " API',\n    version: '1.0.0',\n  });\n});\nexport default app;\n"

createBaseCodeFilesIndex ==
  WriteStep("createBaseCodeFiles", "start", "src/index.js", IndexJs, "server")

createBaseCodeFilesServer ==
  LastWriteStep("createBaseCodeFiles", "server", "src/server.js", ServerJs(projectConfig))

\* .gitignore: the text does not depend on the configuration.
Gitignore ==
  "# Dependencies\nnode_modules/\n\n# Environment variables\n.env\n.env.local\n\n"
  \o "# Logs\nlogs\n*.log\n\n# Build outputs\ndist/\nbuild/\n\n# Database\n*.db\n*.sqlite\n"

\* database.charAt(0).toUpperCase() + database.slice(1)
Capitalized(s) == IF Len(s) = 0 THEN "" ELSE UpperChar(Char(s, 1)) \o SubSeq(s, 2, Len(s))

\* README.md: the prose template with the fields of the configuration and
\* the sections that depend on the feature flags.
Readme(cfg) ==
  "# " \o cfg.name \o "\n\n" \o cfg.description \o "\n\n## Quick Start\n\n- Node.js 18+\n- npm 9+\n"
  \o (IF cfg.features.docker THEN "- Docker & Docker Compose (optional)" ELSE "")
  \o "\n\ngit clone https://github.com/" \o cfg.githubUsername \o "/" \o cfg.name \o ".git\n"
  \o "cd " \o cfg.name \o "\n\n"
  \o (IF cfg.features.docker THEN "### Docker Development\n\nnpm run dev:docker\n" ELSE "")
  \o "\n## Available Scripts\n\n- npm run dev\n"
  \o (IF cfg.features.docker THEN "- npm run dev:docker\n- npm run prod:docker" ELSE "")
  \o "\n\n## Project Structure\n\n" \o cfg.name \o "/\n\n## Tech Stack\n\n- **Framework**: Express.js\n"
  \o (IF cfg.features.database THEN "- **Database**: " \o Capitalized(cfg.database) ELSE "")
  \o "\n" \o (IF cfg.features.docker THEN "- **Containerization**: Docker" ELSE "")
  \o "\n" \o (IF cfg.features.cicd THEN "- **CI/CD**: GitHub Actions" ELSE "")
  \o "\n\n## Author\n\n**" \o cfg.author \o "**\n- Email: " \o cfg.email
  \o "\n- GitHub: [@" \o cfg.githubUsername \o "](https://github.com/" \o cfg.githubUsername \o ")\n"

createConfigFilesGitignore ==
  WriteStep("createConfigFiles", "start", ".gitignore", Gitignore, "readme")

createConfigFilesReadme ==
  LastWriteStep("createConfigFiles", "readme", "README.md", Readme(projectConfig))

(***************************************************************************)
(* installDependencies, initializeGit, showCompletion                      *)
(***************************************************************************)

\* execSync(cmd) inside the try block of fn: it returns, and fn goes on at
\* next (or returns when cmd was its last), or it throws, and the catch
\* block of fn logs the failure and fn returns.
ExecStep(fn, at, cmd, next) ==
  /\ At(fn, at)
  /\ \E ok \in BOOLEAN :
       /\ execLog' = Append(execLog, [cmd |-> cmd, ok |-> ok])
       /\ IF ok
          THEN /\ warnings' = warnings
               /\ IF next = "" THEN Return(fn, projectConfig)
                  ELSE pc' = [fn |-> fn, at |-> next] /\ UNCHANGED phaseLog
          ELSE /\ warnings' = warnings \cup {fn}
               /\ Return(fn, projectConfig)
  /\ UNCHANGED <<projectConfig, lastLine, templates, directories, loopIdx, buf, dirs,
                 files, written, summaryShown, exitCode, failedAt, firstRun, apiVars>>

\* installDependencies without its try block: a failing npm install throws
\* into main().
installDependenciesUncaught ==
  /\ At("installDependencies", "start")
  /\ \E ok \in BOOLEAN :
       IF ok
       THEN /\ execLog' = Append(execLog, [cmd |-> "npm install", ok |-> TRUE])
            /\ Return("installDependencies", projectConfig)
            /\ UNCHANGED <<projectConfig, lastLine, templates, directories, loopIdx,
                           buf, dirs, files, written, warnings, summaryShown, exitCode,
                           failedAt, firstRun, apiVars>>
       ELSE Throw

installDependencies == ExecStep("installDependencies", "start", "npm install", "")

initializeGitInit == ExecStep("initializeGit", "start", "git init", "add")

initializeGitAdd == ExecStep("initializeGit", "add", "git add .", "commit")

initializeGitCommit == ExecStep("initializeGit", "commit", "git commit", "")

showCompletion ==
  /\ At("showCompletion", "start")
  /\ summaryShown' = TRUE
  /\ Return("showCompletion", projectConfig)
  /\ UNCHANGED <<projectConfig, lastLine, templates, directories, loopIdx, buf, dirs,
                 files, written, execLog, warnings, exitCode, failedAt, firstRun,
                 apiVars>>

\* The script is run again in the directory a first run has left, after
\* that run got through its steps 1 to 3 and ended with status 0: a new
\* process with the script's initial values, the directories and the files
\* as they are on disk.
runAgain ==
  /\ pc = Exited
  /\ exitCode = 0
  /\ \E k \in 1..Len(phaseLog) :
       phaseLog[k] = [ev |-> "return", fn |-> "processTemplateFiles"]
  /\ ~firstRun.done
  /\ firstRun' = [done |-> TRUE, cfg |-> projectConfig, dirs |-> dirs, files |-> files]
  /\ pc' = Entry("main")
  /\ projectConfig' = InitialConfig
  /\ lastLine' = ""
  /\ directories' = <<>>
  /\ loopIdx' = 0
  /\ buf' = NoBuf
  /\ written' = {}
  /\ phaseLog' = <<>>
  /\ execLog' = <<>>
  /\ warnings' = {}
  /\ summaryShown' = FALSE
  /\ exitCode' = Running
  /\ failedAt' = NoFailure
  /\ UNCHANGED <<templates, dirs, files, apiVars>>

(***************************************************************************)
(* The run of the script                                                   *)
(***************************************************************************)

Next ==
  \/ scriptRejected
  \/ runAgain
  \/ main
  \/ askName
  \/ askDescription
  \/ askAuthor
  \/ askEmail
  \/ askGithubUsername
  \/ askDockerUsername
  \/ askDocker
  \/ askCicd
  \/ askDatabase
  \/ askDbType
  \/ askRedis
  \/ askMonitoring
  \/ collectProjectInfoReturn
  \/ questionThrows
  \/ inputEnds
  \/ createProjectStructure
  \/ mkdir
  \/ processTemplateFiles
  \/ processPackageJsonRead
  \/ processPackageJsonWrite
  \/ processEnvFilesRead
  \/ processEnvFilesWriteExample
  \/ processEnvFilesWriteEnv
  \/ processDockerFilesCopy
  \/ processDockerFilesReadDev
  \/ processDockerFilesWriteDev
  \/ processDockerFilesReadProd
  \/ processDockerFilesWriteProd
  \/ processDockerFilesIgnore
  \/ processCICDFiles
  \/ processCICDFilesRead
  \/ processCICDFilesWrite
  \/ createBaseCodeFilesIndex
  \/ createBaseCodeFilesServer
  \/ createConfigFilesGitignore
  \/ createConfigFilesReadme
  \/ installDependencies
  \/ initializeGitInit
  \/ initializeGitAdd
  \/ initializeGitCommit
  \/ showCompletion
  \/ mainFinally

Spec == Init /\ [][Next]_vars


(***************************************************************************)
(* Properties                                                              *)
(***************************************************************************)

\* The phases of the tool, in the order of its state machine, each with
\* the function of the script that carries it out.
PhaseOrder ==
  <<[phase |-> "CollectInput", fn |-> "collectProjectInfo"],
    [phase |-> "BuildDirectories", fn |-> "createProjectStructure"],
    [phase |-> "MaterializeTemplates", fn |-> "processTemplateFiles"],
    [phase |-> "InstallDependencies", fn |-> "installDependencies"],
    [phase |-> "InitVCS", fn |-> "initializeGit"],
    [phase |-> "ShowSummary", fn |-> "showCompletion"]>>

\* Whether main() has seen the event ev of the function fn.
Logged(ev, fn) == \E k \in 1..Len(phaseLog) : phaseLog[k] = [ev |-> ev, fn |-> fn]

\* Steps 1 to 3 have all succeeded.
MaterializeDone == Logged("return", "processTemplateFiles")

\* C1: the phases occur in the order CollectInput, BuildDirectories,
\* MaterializeTemplates, InstallDependencies, InitVCS, ShowSummary: what
\* main() has seen so far is a start of "phase 1 starts, phase 1 ends,
\* phase 2 starts, ...", so no phase starts before the previous one has
\* ended, none is entered twice and none is entered after a later one.
C1_LinearPhases ==
  /\ Len(phaseLog) <= 2 * Len(PhaseOrder)
  /\ \A k \in 1..Len(phaseLog) :
       phaseLog[k] = [ev |-> IF k % 2 = 1 THEN "call" ELSE "return",
                      fn |-> PhaseOrder[(k + 1) \div 2].fn]

\* A run that went through all six phases and ended.
C1_Witness ==
  /\ pc = Exited
  /\ Len(phaseLog) = 2 * Len(PhaseOrder)
  /\ summaryShown

\* C2: once input collection, directory creation and template
\* materialization have succeeded, the process ends only with status 0 and
\* with the summary shown, whatever the outcomes of npm install and of the
\* git commands were, and git init was attempted after npm install
\* whether or not npm install failed.
C2_BestEffortTail ==
  MaterializeDone =>
    /\ exitCode \in {Running, 0}
    /\ failedAt = NoFailure
    /\ pc = Exited =>
         /\ summaryShown
         /\ Len(execLog) >= 2
         /\ execLog[1].cmd = "npm install"
         /\ execLog[2].cmd = "git init"
    /\ Logged("return", "installDependencies") => Logged("call", "initializeGit")

\* A run whose npm install and whose git init both failed, and which ended
\* with the summary and status 0.
C2_Witness ==
  /\ pc = Exited
  /\ exitCode = 0
  /\ summaryShown
  /\ execLog = <<[cmd |-> "npm install", ok |-> FALSE], [cmd |-> "git init", ok |-> FALSE]>>
  /\ warnings = {"installDependencies", "initializeGit"}

\* C3: when an operation of steps 1 to 3 has thrown, the process has ended
\* with a status other than 0, and neither InstallDependencies nor InitVCS
\* nor ShowSummary has run.
C3_FatalSteps ==
  failedAt # NoFailure =>
    /\ failedAt.fn \in {"collectProjectInfo", "createProjectStructure"} \cup TemplateFunctions
    /\ pc = Exited
    /\ exitCode \notin {Running, 0}
    /\ execLog = <<>>
    /\ ~summaryShown
    /\ \A k \in 4..6 : ~Logged("call", PhaseOrder[k].fn)

\* A run that ended on a throw while the manifest template was read and
\* parsed, the directories made.
C3_Witness ==
  /\ failedAt = Entry("processPackageJson")
  /\ Logged("return", "createProjectStructure")
  /\ pc = Exited

\* The 14 directories every project gets.
FixedDirectories ==
  {"src", "src/config", "src/controllers", "src/middleware", "src/models",
   "src/routes", "src/services", "src/utils", "src/validations",
   "tests", "tests/unit", "tests/integration", "logs", "scripts"}

\* C4: the list of createProjectStructure holds the 14 fixed directories,
\* nginx exactly when features.docker is set and .github/workflows exactly
\* when features.cicd is set; the list is the same for every value of the
\* database, redis and monitoring flags (it holds nothing else but
\* .github, with .github/workflows), and these are the directories the
\* phase has made when it returns.
C4_Directories ==
  /\ Cardinality(FixedDirectories) = 14
  /\ (At("createProjectStructure", "mkdir") \/ Logged("return", "createProjectStructure")) =>
       /\ FixedDirectories \subseteq Range(directories)
       /\ ("nginx" \in Range(directories)) <=> projectConfig.features.docker
       /\ (".github/workflows" \in Range(directories)) <=> projectConfig.features.cicd
       /\ Range(directories) =
            FixedDirectories
            \cup (IF projectConfig.features.docker THEN {"nginx"} ELSE {})
            \cup (IF projectConfig.features.cicd THEN {".github", ".github/workflows"} ELSE {})
  /\ Logged("return", "createProjectStructure") => dirs = Range(directories)

\* A list built with docker off and cicd on while database, redis and
\* monitoring differ from their defaults.
C4_Witness ==
  /\ Logged("return", "createProjectStructure")
  /\ ~projectConfig.features.docker
  /\ projectConfig.features.cicd
  /\ ~projectConfig.features.database
  /\ projectConfig.features.redis
  /\ ~projectConfig.features.monitoring
  /\ ".github/workflows" \in dirs

\* The manifest written to package.json.
WrittenManifest == files["package.json"]

\* The manifest the same configuration gives with features.database set.
ManifestWithDatabase ==
  Manifest(templates.packageJson, [projectConfig EXCEPT !.features.database = TRUE])

ManifestSections == {"dependencies", "devDependencies", "scripts"}

\* The keys that belong to the database, by section.
DatabaseKeys ==
  [dependencies |-> {"drizzle-orm", "@neondatabase/serverless"},
   devDependencies |-> {"drizzle-kit"},
   scripts |-> {"db:generate", "db:migrate", "db:studio"}]

\* C5: a manifest written with features.database off holds none of the
\* database keys, and equals, key for key and value for value, the
\* manifest of the same configuration with features.database on, but for
\* those keys.
C5_ManifestWithoutDatabase ==
  ("package.json" \in written /\ ~projectConfig.features.database) =>
    /\ DOMAIN WrittenManifest = DOMAIN ManifestWithDatabase
    /\ \A k \in (DOMAIN WrittenManifest) \ ManifestSections :
         WrittenManifest[k] = ManifestWithDatabase[k]
    /\ \A sec \in ManifestSections :
         /\ DOMAIN WrittenManifest[sec] \cap DatabaseKeys[sec] = {}
         /\ DOMAIN WrittenManifest[sec] = (DOMAIN ManifestWithDatabase[sec]) \ DatabaseKeys[sec]
         /\ \A k \in DOMAIN WrittenManifest[sec] :
              WrittenManifest[sec][k] = ManifestWithDatabase[sec][k]

\* A manifest written with features.database off from a template that
\* holds the database keys.
C5_Witness ==
  /\ "package.json" \in written
  /\ ~projectConfig.features.database
  /\ \A sec \in ManifestSections : DatabaseKeys[sec] \subseteq DOMAIN templates.packageJson[sec]
  /\ "express" \in DOMAIN WrittenManifest.dependencies


\* C6 as stated: the repository URL of the written manifest is
\* https://github.com/{githubUsername}/{name}.git and its homepage is
\* https://github.com/{githubUsername}/{name}#readme.
C6_PlainRepositoryUrl ==
  "package.json" \in written =>
    /\ WrittenManifest.repository.url =
         "https://github.com/" \o projectConfig.githubUsername \o "/"
         \o projectConfig.name \o ".git"
    /\ WrittenManifest.homepage =
         "https://github.com/" \o projectConfig.githubUsername \o "/"
         \o projectConfig.name \o "#readme"

\* C6, amended: the repository URL of the written manifest is
\* git+https://github.com/{githubUsername}/{name}.git, which is the
\* composed address https://github.com/{githubUsername}/{name}.git behind
\* the prefix git+, and its homepage is
\* https://github.com/{githubUsername}/{name}#readme.
C6_RepositoryAndHomepage ==
  "package.json" \in written =>
    /\ WrittenManifest.repository.url =
         "git+" \o "https://github.com/" \o projectConfig.githubUsername \o "/"
         \o projectConfig.name \o ".git"
    /\ WrittenManifest.homepage =
         "https://github.com/" \o projectConfig.githubUsername \o "/"
         \o projectConfig.name \o "#readme"

\* A manifest written for the GitHub user bob and a name that is not the
\* template's.
C6_Witness ==
  /\ "package.json" \in written
  /\ projectConfig.githubUsername = "bob"
  /\ projectConfig.name = "demo"
  /\ WrittenManifest.homepage = "https://github.com/bob/demo#readme"

\* C7: the repository.url of the written manifest is
\* git+https://github.com/{githubUsername}/{name}.git; for the name demo
\* and the GitHub user alice it is git+https://github.com/alice/demo.git.
C7_GitPlusUrl ==
  "package.json" \in written =>
    /\ WrittenManifest.repository.url =
         "git+https://github.com/" \o projectConfig.githubUsername \o "/"
         \o projectConfig.name \o ".git"
    /\ (projectConfig.name = "demo" /\ projectConfig.githubUsername = "alice") =>
         WrittenManifest.repository.url = "git+https://github.com/alice/demo.git"

\* The manifest of the scenario: name demo, GitHub user alice, every
\* feature but redis.
C7_Witness ==
  /\ "package.json" \in written
  /\ projectConfig.name = "demo"
  /\ projectConfig.githubUsername = "alice"
  /\ projectConfig.database = "postgresql"
  /\ projectConfig.features =
       [docker |-> TRUE, cicd |-> TRUE, database |-> TRUE, redis |-> FALSE,
        monitoring |-> TRUE]
  /\ WrittenManifest.repository.url = "git+https://github.com/alice/demo.git"

\* Whether text holds one of the placeholders of the environment template.
HoldsPlaceholder(text) ==
  Contains(text, "your-app-name") \/ Contains(text, "your-docker-username")

\* C8: the content written to .env and to .env.example holds no placeholder
\* token: every your-app-name and every your-docker-username of the
\* template has been replaced.
C8_NoPlaceholderLeft ==
  \A path \in {".env", ".env.example"} :
    path \in written => ~HoldsPlaceholder(files[path])

\* The default project name the compose templates carry.
AppDefaultToken == "${PROJECT_NAME:-app}"

\* C9, for the project name demo of the scenario: the written
\* docker-compose.dev.yml and docker-compose.prod.yml no longer hold the
\* default ${PROJECT_NAME:-app} and hold ${PROJECT_NAME:-demo} instead,
\* whenever the template held the default.
C9_ComposeProjectName ==
  \A f \in {[path |-> "docker-compose.dev.yml", tpl |-> templates.composeDev],
            [path |-> "docker-compose.prod.yml", tpl |-> templates.composeProd]} :
    (/\ projectConfig.name = "demo"
     /\ f.path \in written
     /\ Contains(f.tpl, AppDefaultToken)) =>
      /\ ~Contains(files[f.path], AppDefaultToken)
      /\ Contains(files[f.path], "${PROJECT_NAME:-" \o projectConfig.name \o "}")

\* C10: docker, cicd, database and monitoring are off exactly when the line
\* answered is n or N, and redis is on exactly when it is y or Y.  The
\* line of the last prompt is checked where collectProjectInfo stands
\* after it: the database prompt is followed by the database type prompt
\* when the flag came out on and by the redis prompt when it came out off.
C10_YesNoAnswers ==
  /\ At("collectProjectInfo", "cicd") =>
       (projectConfig.features.docker = FALSE <=> lastLine \in {"n", "N"})
  /\ At("collectProjectInfo", "database") =>
       (projectConfig.features.cicd = FALSE <=> lastLine \in {"n", "N"})
  /\ At("collectProjectInfo", "dbType") =>
       (projectConfig.features.database /\ lastLine \notin {"n", "N"})
  /\ (At("collectProjectInfo", "redis") /\ ~projectConfig.features.database) =>
       lastLine \in {"n", "N"}
  /\ At("collectProjectInfo", "monitoring") =>
       (projectConfig.features.redis <=> lastLine \in {"y", "Y"})
  /\ At("collectProjectInfo", "end") =>
       (projectConfig.features.monitoring = FALSE <=> lastLine \in {"n", "N"})

\* The redis prompt answered Y after the docker prompt was answered N and
\* the database prompt with the word no: redis on, docker off, database on.
C10_Witness ==
  /\ At("collectProjectInfo", "monitoring")
  /\ lastLine = "Y"
  /\ projectConfig.features.redis
  /\ ~projectConfig.features.docker
  /\ projectConfig.features.database
  /\ projectConfig.database = "sqlite"

(***************************************************************************)
(* The defaults of collectProjectInfo                                      *)
(***************************************************************************)

DefaultDescription(name) == name \o " - A Node.js API with DevOps practices"

\* C11: each answer of collectProjectInfo is stored as it was typed, with
\* three defaults for the empty line: the description becomes the name
\* already entered followed by " - A Node.js API with DevOps practices",
\* the Docker Hub user name becomes the GitHub user name, and the database
\* type becomes postgresql.  A database type outside postgresql, mysql and
\* mongodb is stored like any other.  The line of the last prompt is
\* checked where collectProjectInfo stands after it.
C11_AnswersAndDefaults ==
  /\ At("collectProjectInfo", "description") => projectConfig.name = lastLine
  /\ At("collectProjectInfo", "author") =>
       projectConfig.description =
         (IF lastLine = "" THEN DefaultDescription(projectConfig.name) ELSE lastLine)
  /\ At("collectProjectInfo", "email") => projectConfig.author = lastLine
  /\ At("collectProjectInfo", "githubUsername") => projectConfig.email = lastLine
  /\ At("collectProjectInfo", "dockerUsername") =>
       projectConfig.githubUsername = lastLine
  /\ At("collectProjectInfo", "docker") =>
       projectConfig.dockerUsername =
         (IF lastLine = "" THEN projectConfig.githubUsername ELSE lastLine)
  /\ (At("collectProjectInfo", "redis") /\ projectConfig.features.database) =>
       projectConfig.database = (IF lastLine = "" THEN "postgresql" ELSE lastLine)

\* The database type prompt answered sqlite, after the description and the
\* Docker Hub prompts were answered with the empty line.
C11_Witness ==
  /\ At("collectProjectInfo", "redis")
  /\ projectConfig.features.database
  /\ lastLine = "sqlite"
  /\ projectConfig.database = "sqlite"
  /\ projectConfig.name = "demo"
  /\ projectConfig.description = "demo - A Node.js API with DevOps practices"
  /\ projectConfig.githubUsername = "bob"
  /\ projectConfig.dockerUsername = "bob"

(***************************************************************************)
(* The files of a successful processTemplateFiles()                        *)
(***************************************************************************)

AlwaysWritten ==
  {"package.json", ".env.example", ".env", "src/index.js", "src/server.js",
   ".gitignore", "README.md"}

DockerWritten ==
  {"Dockerfile", "docker-compose.dev.yml", "docker-compose.prod.yml", ".dockerignore"}

WorkflowsWritten ==
  {".github/workflows/lint-and-format.yml", ".github/workflows/tests.yml",
   ".github/workflows/docker-build-and-push.yml"}

\* C12: once processTemplateFiles() has returned, the run has written
\* package.json, .env.example, .env, src/index.js, src/server.js,
\* .gitignore and README.md whatever the flags are, the four Docker files
\* exactly when features.docker is on, the three workflow files under
\* .github/workflows exactly when features.cicd is on, and no other file.
C12_FilesWritten ==
  MaterializeDone =>
    /\ AlwaysWritten \subseteq written
    /\ \A f \in DockerWritten : f \in written <=> projectConfig.features.docker
    /\ \A f \in WorkflowsWritten : f \in written <=> projectConfig.features.cicd
    /\ written \subseteq AlwaysWritten \cup DockerWritten \cup WorkflowsWritten

\* processTemplateFiles() has returned with docker off and cicd on: the
\* workflow files are written and the Docker files are not.
C12_Witness ==
  /\ MaterializeDone
  /\ ~projectConfig.features.docker
  /\ projectConfig.features.cicd
  /\ WorkflowsWritten \subseteq written
  /\ DockerWritten \cap written = {}

(***************************************************************************)
(* A second run of the script over the directory of a first run            *)
(***************************************************************************)

\* A step of the script that makes a directory or writes a file.
DiskStep ==
  \/ mkdir
  \/ processPackageJsonWrite
  \/ processEnvFilesWriteExample
  \/ processEnvFilesWriteEnv
  \/ processDockerFilesCopy
  \/ processDockerFilesWriteDev
  \/ processDockerFilesWriteProd
  \/ processDockerFilesIgnore
  \/ processCICDFilesWrite
  \/ createBaseCodeFilesIndex
  \/ createBaseCodeFilesServer
  \/ createConfigFilesGitignore
  \/ createConfigFilesReadme

\* C13: a second run of the script with the answers of the first, over the
\* directory the first run left, is not stopped in steps 1 to 3 by what it
\* finds there (wherever it is about to make a directory or to write a
\* file, the operation can succeed), never leaves a directory or a file
\* other than the first run left it, and has written every file anew, each
\* with the content the first run gave it, once processTemplateFiles() has
\* returned.
C13_SecondRunIdempotent ==
  firstRun.done =>
    /\ ENABLED DiskStep => ENABLED (DiskStep /\ pc' # Exited)
    /\ dirs = firstRun.dirs
    /\ files = firstRun.files
    /\ MaterializeDone => written = DOMAIN firstRun.files

\* The second run has got through step 3 with Docker and the workflows on:
\* the fourteen files are written again and are what they were.
C13_Witness ==
  /\ firstRun.done
  /\ MaterializeDone
  /\ projectConfig = firstRun.cfg
  /\ projectConfig.features.docker
  /\ projectConfig.features.cicd
  /\ written = AlwaysWritten \cup DockerWritten \cup WorkflowsWritten
  /\ files = firstRun.files

(***************************************************************************)
(* The example Express application (examples/express): sign-up, the        *)
(* authentication middleware and the routes of /api/users/:id.  A request  *)
(* runs from its arrival to its first await, and from the answer of the    *)
(* database to the next await or to the response, without another request  *)
(* running in between; the database runs one statement at a time.          *)
(***************************************************************************)

Digits == "0123456789"

IsDigit(c) == \E k \in 1..Len(Digits) : Char(Digits, k) = c
DigitValue(c) == (CHOOSE k \in 1..Len(Digits) : Char(Digits, k) = c) - 1

\* The number a string of digits spells.
RECURSIVE Number(_)
Number(s) ==
  IF Len(s) = 0 THEN 0
  ELSE 10 * Number(SubSeq(s, 1, Len(s) - 1)) + DigitValue(Char(s, Len(s)))

\* The digits s starts with.
RECURSIVE LeadingDigits(_)
LeadingDigits(s) ==
  IF Len(s) > 0 /\ IsDigit(Char(s, 1))
  THEN Char(s, 1) \o LeadingDigits(SubSeq(s, 2, Len(s)))
  ELSE ""

\* parseInt's NaN; the strings of this model carry no sign, so that no
\* number parsed is negative.
NaN == -1

\* parseInt(s) on a string without sign, blank or 0x prefix: the number
\* its leading digits spell, NaN when it starts with none.
parseInt(s) == IF LeadingDigits(s) = "" THEN NaN ELSE Number(LeadingDigits(s))

\* userIdSchema.safeParse({ id }): the id matches /^\d+$/, is made a
\* Number and is positive.
userIdSchema(id) ==
  IF id # "" /\ LeadingDigits(id) = id /\ Number(id) > 0
  THEN [success |-> TRUE, id |-> Number(id)]
  ELSE [success |-> FALSE, id |-> NaN]

\* String.prototype.trim on blanks.
RECURSIVE trim(_)
trim(s) ==
  IF Len(s) > 0 /\ Char(s, 1) = " " THEN trim(SubSeq(s, 2, Len(s)))
  ELSE IF Len(s) > 0 /\ Char(s, Len(s)) = " " THEN trim(SubSeq(s, 1, Len(s) - 1))
  ELSE s

\* zod's email check, as far as the addresses of this model go: one @
\* with text on both sides, and no blank.
IsEmail(s) ==
  /\ ~Contains(s, " ")
  /\ \E i \in 2..(Len(s) - 1) :
       /\ Char(s, i) = "@"
       /\ ~Contains(SubSeq(s, 1, i - 1), "@")
       /\ ~Contains(SubSeq(s, i + 1, Len(s)), "@")

\* The email of a body as the schemas leave it: checked, then lowered
\* and trimmed.
NormalizeEmail(s) == trim(toLowerCase(s))

Roles == {"user", "admin"}

Has(obj, k) == k \in DOMAIN obj
NoFields == [k \in {} |-> ""]

\* bcrypt.hash(password, 10) as hashPassword awaits it: a string that
\* names the algorithm and its cost and from which bcrypt.compare tells
\* the password it was made of (the salt is left out).
hashPassword(password) == "$2b$10$" \o password

\* comparePassword: bcrypt.compare(password, hashedPassword).
comparePassword(password, hashedPassword) ==
  hashedPassword = hashPassword(password)

\* signupSchema.safeParse(body), for a body whose name is in order: the
\* email is checked and normalized, the password has 6 to 128 characters,
\* the role is user or admin, user when the body has none.
signupSchema(body) ==
  IF /\ Has(body, "email") /\ IsEmail(body.email)
     /\ Has(body, "password") /\ Len(body.password) >= 6 /\ Len(body.password) <= 128
     /\ Has(body, "role") => body.role \in Roles
  THEN [success |-> TRUE,
        data |-> [email |-> NormalizeEmail(body.email),
                  password |-> body.password,
                  role |-> IF Has(body, "role") THEN body.role ELSE "user"]]
  ELSE [success |-> FALSE, data |-> NoFields]

\* signinSchema.safeParse(body): the email is checked and normalized, the
\* password has 1 to 128 characters.
signinSchema(body) ==
  IF /\ Has(body, "email") /\ IsEmail(body.email)
     /\ Has(body, "password") /\ Len(body.password) >= 1 /\ Len(body.password) <= 128
  THEN [success |-> TRUE,
        data |-> [email |-> NormalizeEmail(body.email), password |-> body.password]]
  ELSE [success |-> FALSE, data |-> NoFields]

\* updateUserSchema.safeParse(body): name, email and role are optional
\* and the other fields of the body are dropped, the email is checked and
\* normalized, the role is user or admin, and a body that leaves no field
\* is refused.
updateUserSchema(body) ==
  IF /\ Has(body, "email") => IsEmail(body.email)
     /\ Has(body, "role") => body.role \in Roles
     /\ DOMAIN body \cap {"name", "email", "role"} # {}
  THEN [success |-> TRUE,
        data |-> [k \in DOMAIN body \cap {"name", "email", "role"} |->
                    IF k = "email" THEN NormalizeEmail(body[k]) ELSE body[k]]]
  ELSE [success |-> FALSE, data |-> NoFields]

(***************************************************************************)
(* Tokens                                                                  *)
(***************************************************************************)

\* The token cookie of a request: none, an empty one, a string that is no
\* JWT, a JWT signed with another secret, or a JWT the application signed,
\* within its life or past it.
NoToken == [kind |-> "none"]
EmptyToken == [kind |-> "empty"]
GarbageToken == [kind |-> "garbage"]
ForgedToken(payload) == [kind |-> "forged", payload |-> payload]
SignedToken(payload, expired) ==
  [kind |-> "signed", payload |-> payload, expired |-> expired]

NoUser == [id |-> 0, email |-> "", role |-> ""]

\* jwt.verify(token, JWT_SECRET) of the jsonwebtoken package: the payload,
\* or the error it throws.
JwtVerify(token) ==
  CASE token.kind = "signed" /\ ~token.expired ->
         [ok |-> TRUE, payload |-> token.payload, name |-> "", message |-> ""]
    [] token.kind = "signed" /\ token.expired ->
         [ok |-> FALSE, payload |-> NoUser,
          name |-> "TokenExpiredError", message |-> "jwt expired"]
    [] token.kind = "forged" ->
         [ok |-> FALSE, payload |-> NoUser,
          name |-> "JsonWebTokenError", message |-> "invalid signature"]
    [] OTHER ->
         [ok |-> FALSE, payload |-> NoUser,
          name |-> "JsonWebTokenError", message |-> "jwt malformed"]

\* jwttoken.verify: the payload, or new Error('Failed to authenticate
\* token') in place of whatever jwt.verify threw.
jwttokenVerify(token) ==
  IF JwtVerify(token).ok THEN JwtVerify(token)
  ELSE [ok |-> FALSE, payload |-> NoUser,
        name |-> "Error", message |-> "Failed to authenticate token"]

\* The catch block of authenticateToken: status and code for an error.
AuthFailure(error) ==
  IF error.message = "Failed to authenticate token"
  THEN [status |-> 401, code |-> "INVALID_TOKEN"]
  ELSE IF error.name = "JsonWebTokenError"
  THEN [status |-> 401, code |-> "MALFORMED_TOKEN"]
  ELSE IF error.name = "TokenExpiredError"
  THEN [status |-> 401, code |-> "EXPIRED_TOKEN"]
  ELSE [status |-> 500, code |-> "AUTH_ERROR"]

\* !token: no cookie, or an empty one.
Falsy(token) == token.kind \in {"none", "empty"}

(***************************************************************************)
(* Requests                                                                *)
(***************************************************************************)

\* Bodies of POST /api/auth/sign-up (name in order).
SignupBodies ==
  {("email" :> "a@x.io") @@ ("password" :> "secret1"),
   ("email" :> "A@x.io") @@ ("password" :> "secret1"),
   ("email" :> "b@x.io") @@ ("password" :> "secret2") @@ ("role" :> "admin"),
   ("email" :> "nope") @@ ("password" :> "secret1")}

\* Bodies of POST /api/auth/sign-in: the password of a@x.io, another
\* password, an email no sign-up of this model uses, and no email.
SigninBodies ==
  {("email" :> "a@x.io") @@ ("password" :> "secret1"),
   ("email" :> "A@x.io") @@ ("password" :> "wrong"),
   ("email" :> "c@x.io") @@ ("password" :> "secret1"),
   ("email" :> "nope") @@ ("password" :> "secret1")}

\* The :id of a path.
IdParams == {"1", "2", "3", "2x", "x", "0"}

\* Bodies of PUT /api/users/:id.
PutBodies ==
  {("email" :> "B@x.io") @@ ("password" :> "secret3"),
   ("email" :> "a@x.io"), ("role" :> "admin"),
   ("role" :> "root"), NoFields}

\* The payload of a token signed with a secret that is not the
\* application's.
ForgedPayload == [id |-> 1, email |-> "a@x.io", role |-> "admin"]

\* The token cookies a client can send.
Tokens ==
  {NoToken, EmptyToken, GarbageToken, ForgedToken(ForgedPayload)}
  \cup {SignedToken(p, e) : p \in issued, e \in BOOLEAN}

\* The middleware and the controller of each route, in the order the
\* routers name them.
Pipeline(route) ==
  CASE route = "signup" -> <<"signup">>
    [] route = "signin" -> <<"signIn">>
    [] route = "signout" -> <<"signOut">>
    [] route = "me" -> <<"authenticateToken", "getCurrentUser">>
    [] route = "posts" -> <<"optionalAuth", "getPosts">>
    [] route = "list" -> <<"authenticateToken", "requireAdmin", "fetchAllUsers">>
    [] route = "get" -> <<"authenticateToken", "requireOwnership", "fetchUserById">>
    [] route = "put" -> <<"authenticateToken", "requireOwnership", "updateUserById">>
    [] route = "delete" -> <<"authenticateToken", "requireAdmin", "deleteUserById">>

NoCall == [name |-> "", id |-> 0, updates |-> NoFields]
NoRow == [email |-> "", role |-> "", password |-> ""]

\* No row: what a request holds of the services and in its response body
\* before either is there.
NoRows == [id \in {} |-> NoFields]

\* A request as Express hands it to the first function of its route.
NewRequest(route, token, id, body) ==
  [pc |-> Pipeline(route)[1], route |-> route, token |-> token, id |-> id,
   body |-> body, user |-> NoUser, hasUser |-> FALSE, data |-> NoFields,
   svc |-> NoCall, existing |-> NoRow, wrote |-> FALSE,
   thrown |-> "", ret |-> NoRows, sent |-> NoRows, cookie |-> "", nexts |-> 0,
   status |-> 0, code |-> "", error |-> ""]

\* The places at which a request runs JavaScript (the others are awaits of
\* the database); a request whose response is written stays at done until
\* the response is sent.
Handlers ==
  {"signup", "signIn", "signOut", "optionalAuth", "getPosts", "authenticateToken", "requireOwnership", "requireAdmin",
   "getCurrentUser", "fetchAllUsers", "fetchUserById", "updateUserById", "deleteUserById", "done"}

InHandler(s) == reqs[s].pc \in Handlers

\* The request of slot s is at the place at and may run: JavaScript runs
\* one request at a time, up to its next await.
Turn(s, at) ==
  /\ reqs[s].pc = at
  /\ \A t \in Slots \ {s} : ~InHandler(t)

\* The request of slot s becomes r.
SetReq(s, r) == reqs' = [reqs EXCEPT ![s] = r]

\* res.status(status).json({ error, code }).
Responded(r, status, error, code) ==
  [r EXCEPT !.pc = "done", !.status = status, !.error = error, !.code = code]

\* The columns cols of a row, of those a row of this model has: what a
\* select or a returning clause with that list of columns yields, or an
\* object literal that copies these fields.
Columns(row, cols) == [k \in cols \cap DOMAIN row |-> row[k]]

\* select() names no column: the whole row.
AllColumns == {"id", "name", "email", "password", "role", "created_at", "updated_at"}

\* The columns of getAllUsers, getUserById, getUserByEmail and updateUser.
UserColumns == {"id", "email", "name", "role", "created_at", "updated_at"}

\* The columns createUser and deleteUser return, and the fields of the
\* object authenticateUser returns.
NewUserColumns == {"id", "name", "email", "role", "created_at"}

\* The fields of user in the bodies of sign-up and sign-in, and of
\* deletedUser in the body of DELETE.
BodyUserFields == {"id", "name", "email", "role"}

\* res.status(status).json(...) with the object user, made of the object
\* ret a service returned, in its body.
RespondedWith(r, status, ret, sent) ==
  [Responded(r, status, "", "") EXCEPT !.ret = ret, !.sent = sent]

\* next(): the function that follows in the pipeline.
CallNext(r) ==
  [r EXCEPT !.pc = Pipeline(r.route)[IndexOf(Pipeline(r.route), r.pc) + 1],
            !.nexts = @ + 1]

\* next(error): the error handler of app.js answers with error.status, which
\* no error of this model has, or 500.
NextError(r) == Responded(r, 500, "Internal server error", "")

\* Express hands a new request to its route.
receive ==
  /\ served < MaxRequests
  /\ \A t \in Slots : ~InHandler(t)
  /\ \E s \in Slots :
       /\ reqs[s] = Idle
       /\ \A t \in Slots : t < s => reqs[t] # Idle
       /\ \/ \E body \in SignupBodies :
               SetReq(s, NewRequest("signup", NoToken, "", body))
          \/ \E body \in SigninBodies :
               SetReq(s, NewRequest("signin", NoToken, "", body))
          \/ \E token \in Tokens, route \in {"me", "signout", "posts", "list"} :
               SetReq(s, NewRequest(route, token, "", NoFields))
          \/ \E token \in Tokens, id \in IdParams, route \in {"get", "delete"} :
               SetReq(s, NewRequest(route, token, id, NoFields))
          \/ \E token \in Tokens, id \in IdParams, body \in PutBodies :
               SetReq(s, NewRequest("put", token, id, body))
  /\ served' = served + 1
  /\ UNCHANGED <<users, nextId, issued, scriptVars>>

\* The response of slot s is sent.
finish(s) ==
  /\ reqs[s].pc = "done"
  /\ SetReq(s, Idle)
  /\ UNCHANGED <<users, nextId, issued, served, scriptVars>>

(***************************************************************************)
(* Middleware                                                              *)
(***************************************************************************)

\* authenticateToken that lets a request through whose token has expired.
authenticateTokenIgnoringExpiry(s) ==
  /\ Turn(s, "authenticateToken")
  /\ LET r == reqs[s]
     IN IF Falsy(r.token)
        THEN SetReq(s, Responded(r, 401, "Authentication required", "NO_TOKEN"))
        ELSE IF r.token.kind = "signed"
        THEN SetReq(s, CallNext([r EXCEPT !.user = r.token.payload, !.hasUser = TRUE]))
        ELSE SetReq(s, Responded(r, 401, "Authentication failed", "INVALID_TOKEN"))
  /\ UNCHANGED <<users, nextId, issued, served, scriptVars>>

authenticateToken(s) ==
  /\ Turn(s, "authenticateToken")
  /\ LET r == reqs[s]
         decoded == jwttokenVerify(r.token)
         failure == AuthFailure(decoded)
     IN IF Falsy(r.token)
        THEN SetReq(s, Responded(r, 401, "Authentication required", "NO_TOKEN"))
        ELSE IF decoded.ok
        THEN SetReq(s, CallNext([r EXCEPT !.user = decoded.payload, !.hasUser = TRUE]))
        ELSE SetReq(s, Responded(r, failure.status,
                                 IF failure.status = 401 THEN "Authentication failed"
                                 ELSE "Internal server error",
                                 failure.code))
  /\ UNCHANGED <<users, nextId, issued, served, scriptVars>>

\* optionalAuth that turns away a token that does not verify.
optionalAuthBlocking(s) ==
  /\ Turn(s, "optionalAuth")
  /\ LET r == reqs[s]
         decoded == jwttokenVerify(r.token)
     IN IF Falsy(r.token)
        THEN SetReq(s, CallNext(r))
        ELSE IF decoded.ok
        THEN SetReq(s, CallNext([r EXCEPT !.user = decoded.payload, !.hasUser = TRUE]))
        ELSE SetReq(s, Responded(r, 401, "Authentication failed", "INVALID_TOKEN"))
  /\ UNCHANGED <<users, nextId, issued, served, scriptVars>>

\* optionalAuth: next() without a user when there is no token or when
\* jwttoken.verify throws, next() with the decoded user otherwise.
optionalAuth(s) ==
  /\ Turn(s, "optionalAuth")
  /\ LET r == reqs[s]
         decoded == jwttokenVerify(r.token)
     IN IF Falsy(r.token)
        THEN SetReq(s, CallNext(r))
        ELSE IF decoded.ok
        THEN SetReq(s, CallNext([r EXCEPT !.user = decoded.payload, !.hasUser = TRUE]))
        ELSE SetReq(s, CallNext(r))
  /\ UNCHANGED <<users, nextId, issued, served, scriptVars>>

\* requireOwnership that compares nothing.
requireOwnershipOpen(s) ==
  /\ Turn(s, "requireOwnership")
  /\ SetReq(s, CallNext(reqs[s]))
  /\ UNCHANGED <<users, nextId, issued, served, scriptVars>>

\* requireOwnership('id').
requireOwnership(s) ==
  /\ Turn(s, "requireOwnership")
  /\ LET r == reqs[s]
         resourceId == parseInt(r.id)
     IN IF ~r.hasUser
        THEN SetReq(s, Responded(r, 401, "Authentication required", "NOT_AUTHENTICATED"))
        ELSE IF resourceId = 0 \/ resourceId = NaN
        THEN SetReq(s, Responded(r, 400, "Invalid resource ID", "INVALID_RESOURCE_ID"))
        ELSE IF r.user.role = "admin" \/ r.user.id = resourceId
        THEN SetReq(s, CallNext(r))
        ELSE SetReq(s, Responded(r, 403, "Access denied", "NOT_RESOURCE_OWNER"))
  /\ UNCHANGED <<users, nextId, issued, served, scriptVars>>

\* requireAdmin = requireRole(['admin']).
requireAdmin(s) ==
  /\ Turn(s, "requireAdmin")
  /\ LET r == reqs[s]
     IN IF ~r.hasUser
        THEN SetReq(s, Responded(r, 401, "Authentication required", "NOT_AUTHENTICATED"))
        ELSE IF r.user.role \notin {"admin"}
        THEN SetReq(s, Responded(r, 403, "Access denied", "INSUFFICIENT_PERMISSIONS"))
        ELSE SetReq(s, CallNext(r))
  /\ UNCHANGED <<users, nextId, issued, served, scriptVars>>

(***************************************************************************)
(* Controllers                                                             *)
(***************************************************************************)

\* A call of a function of the services.
Call(name, id, updates) == [name |-> name, id |-> id, updates |-> updates]

\* signup, up to the first query of createUser.
signup(s) ==
  /\ Turn(s, "signup")
  /\ LET r == reqs[s]
         validationResult == signupSchema(r.body)
     IN IF ~validationResult.success
        THEN SetReq(s, Responded(r, 400, "Validation failed", ""))
        ELSE SetReq(s, [r EXCEPT !.data = validationResult.data,
                                 !.svc = Call("createUser", 0, validationResult.data),
                                 !.pc = "createUser:select"])
  /\ UNCHANGED <<users, nextId, issued, served, scriptVars>>

\* getPosts, the handler behind optionalAuth in the example of its use;
\* the source has no body for it, and it is taken to answer 200.
getPosts(s) ==
  /\ Turn(s, "getPosts")
  /\ SetReq(s, Responded(reqs[s], 200, "", ""))
  /\ UNCHANGED <<users, nextId, issued, served, scriptVars>>

\* signIn, up to the query of authenticateUser (the texts the source
\* writes in Chinese are left out of the responses).
signIn(s) ==
  /\ Turn(s, "signIn")
  /\ LET r == reqs[s]
         validationResult == signinSchema(r.body)
     IN IF ~validationResult.success
        THEN SetReq(s, Responded(r, 400, "", ""))
        ELSE SetReq(s, [r EXCEPT !.data = validationResult.data,
                                 !.svc = Call("authenticateUser", 0, validationResult.data),
                                 !.pc = "authenticateUser"])
  /\ UNCHANGED <<users, nextId, issued, served, scriptVars>>

\* signOut: the cookie is cleared and the request answered 200, whatever
\* cookie it came with.
signOut(s) ==
  /\ Turn(s, "signOut")
  /\ SetReq(s, [RespondedWith(reqs[s], 200, NoRows, NoRows) EXCEPT !.cookie = "cleared"])
  /\ UNCHANGED <<users, nextId, issued, served, scriptVars>>

getCurrentUser(s) ==
  /\ Turn(s, "getCurrentUser")
  /\ LET r == reqs[s]
     IN IF ~r.hasUser
        THEN SetReq(s, Responded(r, 401, "Authentication required", ""))
        ELSE SetReq(s, RespondedWith(r, 200, NoRows,
                                     r.user.id :> [email |-> r.user.email,
                                                   role |-> r.user.role]))
  /\ UNCHANGED <<users, nextId, issued, served, scriptVars>>

\* fetchAllUsers, up to the query of getAllUsers.
fetchAllUsers(s) ==
  /\ Turn(s, "fetchAllUsers")
  /\ SetReq(s, [reqs[s] EXCEPT !.svc = Call("getAllUsers", 0, NoFields),
                               !.pc = "getAllUsers"])
  /\ UNCHANGED <<users, nextId, issued, served, scriptVars>>

\* fetchUserById, up to the query of getUserById.
fetchUserById(s) ==
  /\ Turn(s, "fetchUserById")
  /\ LET r == reqs[s]
         validationResult == userIdSchema(r.id)
     IN IF ~validationResult.success
        THEN SetReq(s, Responded(r, 400, "Validation failed", ""))
        ELSE SetReq(s, [r EXCEPT !.svc = Call("getUserById", validationResult.id, NoFields),
                                 !.pc = "getUserById"])
  /\ UNCHANGED <<users, nextId, issued, served, scriptVars>>

\* updateUserById without its check of the role field.
updateUserByIdAnyRole(s) ==
  /\ Turn(s, "updateUserById")
  /\ LET r == reqs[s]
         idValidationResult == userIdSchema(r.id)
         updateValidationResult == updateUserSchema(r.body)
     IN IF ~idValidationResult.success \/ ~updateValidationResult.success
        THEN SetReq(s, Responded(r, 400, "Validation failed", ""))
        ELSE IF r.user.role # "admin" /\ r.user.id # idValidationResult.id
        THEN SetReq(s, Responded(r, 403, "Access denied", ""))
        ELSE SetReq(s, [r EXCEPT !.data = updateValidationResult.data,
                                 !.svc = Call("updateUser", idValidationResult.id,
                                              updateValidationResult.data),
                                 !.pc = "getUserById"])
  /\ UNCHANGED <<users, nextId, issued, served, scriptVars>>

\* updateUserById, up to the first query of updateUser.
updateUserById(s) ==
  /\ Turn(s, "updateUserById")
  /\ LET r == reqs[s]
         idValidationResult == userIdSchema(r.id)
         updateValidationResult == updateUserSchema(r.body)
         id == idValidationResult.id
         updates == updateValidationResult.data
         sent == IF r.user.role # "admin" THEN DeleteKey(updates, "role") ELSE updates
     IN IF ~idValidationResult.success
        THEN SetReq(s, Responded(r, 400, "Validation failed", ""))
        ELSE IF ~updateValidationResult.success
        THEN SetReq(s, Responded(r, 400, "Validation failed", ""))
        ELSE IF ~r.hasUser
        THEN SetReq(s, Responded(r, 401, "Authentication required", ""))
        ELSE IF r.user.role # "admin" /\ r.user.id # id
        THEN SetReq(s, Responded(r, 403, "Access denied", ""))
        ELSE IF Has(updates, "role") /\ r.user.role # "admin"
        THEN SetReq(s, Responded(r, 403, "Access denied", ""))
        ELSE SetReq(s, [r EXCEPT !.data = sent,
                                 !.svc = Call("updateUser", id, sent),
                                 !.pc = "getUserById"])
  /\ UNCHANGED <<users, nextId, issued, served, scriptVars>>

\* deleteUserById without its check that the target is not the requester.
deleteUserByIdSelfToo(s) ==
  /\ Turn(s, "deleteUserById")
  /\ LET r == reqs[s]
         validationResult == userIdSchema(r.id)
     IN IF ~validationResult.success
        THEN SetReq(s, Responded(r, 400, "Validation failed", ""))
        ELSE IF r.user.role # "admin"
        THEN SetReq(s, Responded(r, 403, "Access denied", ""))
        ELSE SetReq(s, [r EXCEPT !.svc = Call("deleteUser", validationResult.id, NoFields),
                                 !.pc = "getUserById"])
  /\ UNCHANGED <<users, nextId, issued, served, scriptVars>>

\* deleteUserById, up to the first query of deleteUser.
deleteUserById(s) ==
  /\ Turn(s, "deleteUserById")
  /\ LET r == reqs[s]
         validationResult == userIdSchema(r.id)
         id == validationResult.id
     IN IF ~validationResult.success
        THEN SetReq(s, Responded(r, 400, "Validation failed", ""))
        ELSE IF ~r.hasUser
        THEN SetReq(s, Responded(r, 401, "Authentication required", ""))
        ELSE IF r.user.role # "admin"
        THEN SetReq(s, Responded(r, 403, "Access denied", ""))
        ELSE IF r.user.id = id
        THEN SetReq(s, Responded(r, 403, "Operation denied", ""))
        ELSE SetReq(s, [r EXCEPT !.svc = Call("deleteUser", id, NoFields),
                                 !.pc = "getUserById"])
  /\ UNCHANGED <<users, nextId, issued, served, scriptVars>>

(***************************************************************************)
(* Services: one action for each statement the database runs, with the     *)
(* JavaScript that follows its answer up to the next await or the response *)
(***************************************************************************)

\* The request whose call of a service threw an error with this message.
Thrown(r, message) == [r EXCEPT !.thrown = message]

\* The ids of the rows whose email is email.
WithEmail(email) == {id \in DOMAIN users : users[id].email = email}

\* The table without the row id.
DeleteRow(id) == [k \in (DOMAIN users) \ {id} |-> users[k]]

\* The row with the fields of updates set.
UpdatedRow(row, updates) ==
  [email |-> IF Has(updates, "email") THEN updates.email ELSE row.email,
   role |-> IF Has(updates, "role") THEN updates.role ELSE row.role,
   password |-> IF Has(updates, "password") THEN updates.password ELSE row.password]

\* The catch block of a controller of /api/users for an error the
\* services throw.
UsersFailure(r, message) ==
  IF message = "User not found"
  THEN Responded(Thrown(r, message), 404, "User not found", "")
  ELSE IF message = "Email already exists" /\ r.route = "put"
  THEN Responded(Thrown(r, message), 409, "Email already exists", "")
  ELSE NextError(Thrown(r, message))

\* The catch block of signup for an error createUser throws.
SignupFailure(r, message) ==
  IF message = "User with this email already exists"
  THEN Responded(Thrown(r, message), 409, "Email already exists", "")
  ELSE NextError(Thrown(r, message))

\* The catch block of signIn that tells a missing user from a wrong
\* password.
SigninFailureTellsApart(r, message) ==
  IF message = "User not found"
  THEN Responded(Thrown(r, message), 404, "User not found", "")
  ELSE IF message = "Invalid password"
  THEN Responded(Thrown(r, message), 401, "Invalid credentials", "")
  ELSE NextError(Thrown(r, message))

\* The catch block of signIn for an error authenticateUser throws.
SigninFailure(r, message) ==
  IF message = "User not found" \/ message = "Invalid password"
  THEN Responded(Thrown(r, message), 401, "Invalid credentials", "")
  ELSE NextError(Thrown(r, message))

\* createUser: the select by email and what follows its answer.
createUserSelect(s) ==
  /\ Turn(s, "createUser:select")
  /\ LET r == reqs[s]
     IN IF WithEmail(r.data.email) # {}
        THEN SetReq(s, SignupFailure(r, "User with this email already exists"))
        ELSE SetReq(s, [r EXCEPT !.pc = "createUser:insert"])
  /\ UNCHANGED <<users, nextId, issued, served, scriptVars>>

\* createUser's insert into a table whose email column is not unique.
createUserInsertNotUnique(s) ==
  /\ Turn(s, "createUser:insert")
  /\ LET r == reqs[s]
         row == [email |-> r.data.email, role |-> r.data.role,
                 password |-> hashPassword(r.data.password)]
         newUser == Columns(row, NewUserColumns)
         token == [id |-> nextId, email |-> newUser.email, role |-> newUser.role]
     IN /\ users' = (nextId :> row) @@ users
        /\ issued' = issued \cup {token}
        /\ SetReq(s, [RespondedWith([r EXCEPT !.wrote = TRUE], 201,
                                    nextId :> newUser,
                                    nextId :> Columns(newUser, BodyUserFields))
                        EXCEPT !.cookie = "set"])
  /\ nextId' = nextId + 1
  /\ UNCHANGED <<served, scriptVars>>

\* createUser: the password is hashed, then the insert, which the unique
\* constraint of users.email refuses for an email a row has, and what
\* follows its answer: signup signs the token, sets the cookie and
\* answers 201.
createUserInsert(s) ==
  /\ Turn(s, "createUser:insert")
  /\ LET r == reqs[s]
         row == [email |-> r.data.email, role |-> r.data.role,
                 password |-> hashPassword(r.data.password)]
         newUser == Columns(row, NewUserColumns)
         token == [id |-> nextId, email |-> newUser.email, role |-> newUser.role]
     IN IF WithEmail(r.data.email) # {}
        THEN /\ SetReq(s, SignupFailure(r, "duplicate key value violates unique constraint"))
             /\ UNCHANGED <<users, issued>>
        ELSE /\ users' = (nextId :> row) @@ users
             /\ issued' = issued \cup {token}
             /\ SetReq(s, [RespondedWith([r EXCEPT !.wrote = TRUE], 201,
                                         nextId :> newUser,
                                         nextId :> Columns(newUser, BodyUserFields))
                             EXCEPT !.cookie = "set"])
  /\ nextId' = nextId + 1
  /\ UNCHANGED <<served, scriptVars>>

\* authenticateUser that returns the row it selected.
authenticateUserWholeRow(s) ==
  /\ Turn(s, "authenticateUser")
  /\ LET r == reqs[s]
         id == CHOOSE id \in WithEmail(r.data.email) : TRUE
         existingUser == Columns(users[id], AllColumns)
         token == [id |-> id, email |-> existingUser.email, role |-> existingUser.role]
     IN IF WithEmail(r.data.email) = {}
        THEN SetReq(s, SigninFailure(r, "User not found")) /\ UNCHANGED issued
        ELSE IF ~comparePassword(r.data.password, existingUser.password)
        THEN SetReq(s, SigninFailure(r, "Invalid password")) /\ UNCHANGED issued
        ELSE /\ issued' = issued \cup {token}
             /\ SetReq(s, [RespondedWith(r, 200, id :> existingUser,
                                         id :> Columns(existingUser, BodyUserFields))
                             EXCEPT !.cookie = "set"])
  /\ UNCHANGED <<users, nextId, served, scriptVars>>

\* authenticateUser: the select by email and what follows its answer: the
\* password is compared with the hash of the row, and signIn signs the
\* token, sets the cookie and answers 200.
authenticateUser(s) ==
  /\ Turn(s, "authenticateUser")
  /\ LET r == reqs[s]
         id == CHOOSE id \in WithEmail(r.data.email) : TRUE
         existingUser == Columns(users[id], AllColumns)
         user == Columns(existingUser, NewUserColumns)
         token == [id |-> id, email |-> user.email, role |-> user.role]
     IN IF WithEmail(r.data.email) = {}
        THEN SetReq(s, SigninFailure(r, "User not found")) /\ UNCHANGED issued
        ELSE IF ~comparePassword(r.data.password, existingUser.password)
        THEN SetReq(s, SigninFailure(r, "Invalid password")) /\ UNCHANGED issued
        ELSE /\ issued' = issued \cup {token}
             /\ SetReq(s, [RespondedWith(r, 200, id :> user,
                                         id :> Columns(user, BodyUserFields))
                             EXCEPT !.cookie = "set"])
  /\ UNCHANGED <<users, nextId, served, scriptVars>>

\* getAllUsers: the select and what follows its answer: fetchAllUsers
\* answers 200 with the rows.
getAllUsers(s) ==
  /\ Turn(s, "getAllUsers")
  /\ LET allUsers == [id \in DOMAIN users |-> Columns(users[id], UserColumns)]
     IN SetReq(s, RespondedWith(reqs[s], 200, allUsers, allUsers))
  /\ UNCHANGED <<users, nextId, issued, served, scriptVars>>

\* getUserById: the select by id and what follows its answer, in
\* fetchUserById, in updateUser or in deleteUser.
getUserById(s) ==
  /\ Turn(s, "getUserById")
  /\ LET r == reqs[s]
         id == r.svc.id
         found == [r EXCEPT !.existing = Columns(users[id], UserColumns)]
     IN IF id \notin DOMAIN users
        THEN SetReq(s, UsersFailure(r, "User not found"))
        ELSE IF r.svc.name = "getUserById"
        THEN SetReq(s, RespondedWith(found, 200,
                                     id :> Columns(users[id], UserColumns),
                                     id :> Columns(users[id], UserColumns)))
        ELSE IF r.svc.name = "deleteUser"
        THEN SetReq(s, [found EXCEPT !.pc = "deleteUser:delete"])
        ELSE IF Has(r.svc.updates, "email") /\ r.svc.updates.email # users[id].email
        THEN SetReq(s, [found EXCEPT !.pc = "updateUser:email"])
        ELSE SetReq(s, [found EXCEPT !.pc = "updateUser:update"])
  /\ UNCHANGED <<users, nextId, issued, served, scriptVars>>

\* updateUser: the select by the new email and what follows its answer.
updateUserEmail(s) ==
  /\ Turn(s, "updateUser:email")
  /\ LET r == reqs[s]
     IN IF WithEmail(r.svc.updates.email) # {}
        THEN SetReq(s, UsersFailure(r, "Email already exists"))
        ELSE SetReq(s, [r EXCEPT !.pc = "updateUser:update"])
  /\ UNCHANGED <<users, nextId, issued, served, scriptVars>>

\* updateUser: the update, which the unique constraint refuses for an
\* email another row has and which returns no row when the row is gone
\* (updatedUser.email then throws a TypeError), and what follows.
updateUserUpdate(s) ==
  /\ Turn(s, "updateUser:update")
  /\ LET r == reqs[s]
         id == r.svc.id
         updates == r.svc.updates
     IN IF id \notin DOMAIN users
        THEN /\ SetReq(s, UsersFailure(r, "Cannot read properties of undefined"))
             /\ UNCHANGED users
        ELSE IF Has(updates, "email") /\ WithEmail(updates.email) \ {id} # {}
        THEN /\ SetReq(s, UsersFailure(r, "duplicate key value violates unique constraint"))
             /\ UNCHANGED users
        ELSE /\ users' = [users EXCEPT ![id] = UpdatedRow(@, updates)]
             /\ SetReq(s, RespondedWith([r EXCEPT !.wrote = TRUE], 200,
                                        id :> Columns(UpdatedRow(users[id], updates), UserColumns),
                                        id :> Columns(UpdatedRow(users[id], updates), UserColumns)))
  /\ UNCHANGED <<nextId, issued, served, scriptVars>>

\* deleteUser: the delete, which returns no row when the row is gone
\* (deletedUser.email then throws a TypeError), and what follows.
deleteUserDelete(s) ==
  /\ Turn(s, "deleteUser:delete")
  /\ LET r == reqs[s]
         id == r.svc.id
     IN IF id \notin DOMAIN users
        THEN /\ SetReq(s, UsersFailure(r, "Cannot read properties of undefined"))
             /\ UNCHANGED users
        ELSE /\ users' = DeleteRow(id)
             /\ SetReq(s, RespondedWith([r EXCEPT !.wrote = TRUE], 200,
                                        id :> Columns(users[id], NewUserColumns),
                                        id :> Columns(users[id], BodyUserFields)))
  /\ UNCHANGED <<nextId, issued, served, scriptVars>>

(***************************************************************************)
(* The example application at work                                         *)
(***************************************************************************)

\* The application is started; the script takes no part in its run.
InitApi ==
  /\ ApiStarted
  /\ ScriptStarted
  /\ templates = FullTemplates

NextApi ==
  \/ receive
  \/ \E s \in Slots : finish(s)
  \/ \E s \in Slots : authenticateToken(s)
  \/ \E s \in Slots : optionalAuth(s)
  \/ \E s \in Slots : getPosts(s)
  \/ \E s \in Slots : requireOwnership(s)
  \/ \E s \in Slots : requireAdmin(s)
  \/ \E s \in Slots : signup(s)
  \/ \E s \in Slots : signIn(s)
  \/ \E s \in Slots : signOut(s)
  \/ \E s \in Slots : getCurrentUser(s)
  \/ \E s \in Slots : fetchAllUsers(s)
  \/ \E s \in Slots : fetchUserById(s)
  \/ \E s \in Slots : updateUserById(s)
  \/ \E s \in Slots : deleteUserById(s)
  \/ \E s \in Slots : createUserSelect(s)
  \/ \E s \in Slots : createUserInsert(s)
  \/ \E s \in Slots : authenticateUser(s)
  \/ \E s \in Slots : getAllUsers(s)
  \/ \E s \in Slots : getUserById(s)
  \/ \E s \in Slots : updateUserEmail(s)
  \/ \E s \in Slots : updateUserUpdate(s)
  \/ \E s \in Slots : deleteUserDelete(s)

SpecApi == InitApi /\ [][NextApi]_vars

(***************************************************************************)
(* Properties of the example application                                   *)
(***************************************************************************)

\* The slots that hold a request.
Active == {s \in Slots : reqs[s] # Idle}

Answered(s) == reqs[s].pc = "done"

\* The request of slot s has a verified token whose role is not admin.
NonAdmin(s) == reqs[s].hasUser /\ reqs[s].user.role # "admin"

\* The request of slot s has a verified token whose role is admin.
Admin(s) == reqs[s].hasUser /\ reqs[s].user.role = "admin"

\* C14: on GET and PUT /api/users/:id a service is called only for a
\* request with a verified token, and for a requester who is not an admin
\* only with the requester's own id; such a requester is answered 403 for
\* a valid id that is not its own and 400 or 403 for an id that is not
\* valid, the store untouched by the request in both cases; a request of
\* an admin that passes validation calls the service with the id it
\* names, whosever it is.
C14_OwnershipOnGetAndPut ==
  \A s \in Active :
    LET r == reqs[s]
        parsed == userIdSchema(r.id)
    IN r.route \in {"get", "put"} =>
         /\ r.svc # NoCall =>
              /\ r.hasUser
              /\ r.svc.name \in {"getUserById", "updateUser"}
              /\ NonAdmin(s) => r.svc.id = r.user.id
         /\ (Answered(s) /\ NonAdmin(s) /\ parsed.success /\ parsed.id # r.user.id) =>
              (r.status = 403 /\ r.svc = NoCall /\ ~r.wrote)
         /\ (Answered(s) /\ NonAdmin(s) /\ ~parsed.success) =>
              (r.status \in {400, 403} /\ r.svc = NoCall /\ ~r.wrote)
         /\ (Answered(s) /\ Admin(s) /\ parsed.success
               /\ (r.route = "put" => updateUserSchema(r.body).success)) =>
              (r.svc # NoCall /\ r.svc.id = parsed.id)

\* A requester who is not an admin has asked for the row of another user,
\* which exists, and is answered 403.
C14_Witness ==
  \E s \in Active :
    /\ Answered(s)
    /\ reqs[s].route = "get"
    /\ NonAdmin(s)
    /\ userIdSchema(reqs[s].id).success
    /\ userIdSchema(reqs[s].id).id # reqs[s].user.id
    /\ userIdSchema(reqs[s].id).id \in DOMAIN users
    /\ reqs[s].status = 403

\* C15: on DELETE /api/users/:id, deleteUser is called only for a request
\* whose token jwttoken.verify accepts, whose role is admin and whose
\* target is not the requester's own id.  A request without a token or
\* with one that fails verification is answered 401, a requester who is
\* not an admin 403, and an admin who names its own id 403; none of them
\* touches the store, and no request deletes the row of its own requester.
C15_DeleteOnlyByAdminNotSelf ==
  \A s \in Active :
    LET r == reqs[s]
        parsed == userIdSchema(r.id)
    IN r.route = "delete" =>
         /\ r.svc # NoCall =>
              /\ r.svc.name = "deleteUser"
              /\ ~Falsy(r.token) /\ jwttokenVerify(r.token).ok
              /\ r.user = r.token.payload
              /\ r.user.role = "admin"
              /\ r.svc.id # r.user.id
         /\ r.wrote => (r.svc.name = "deleteUser" /\ r.svc.id # r.user.id)
         /\ (Answered(s) /\ (Falsy(r.token) \/ ~jwttokenVerify(r.token).ok)) =>
              (r.status = 401 /\ r.svc = NoCall /\ ~r.wrote)
         /\ (Answered(s) /\ NonAdmin(s)) =>
              (r.status = 403 /\ r.svc = NoCall /\ ~r.wrote)
         /\ (Answered(s) /\ Admin(s) /\ parsed.success /\ parsed.id = r.user.id) =>
              (r.status = 403 /\ r.svc = NoCall /\ ~r.wrote)

\* An admin has asked for its own row to be deleted and is answered 403,
\* the row still in the table.
C15_Witness ==
  \E s \in Active :
    /\ Answered(s)
    /\ reqs[s].route = "delete"
    /\ Admin(s)
    /\ userIdSchema(reqs[s].id).success
    /\ userIdSchema(reqs[s].id).id = reqs[s].user.id
    /\ reqs[s].user.id \in DOMAIN users
    /\ reqs[s].status = 403
    /\ reqs[s].error = "Operation denied"

\* The role of a stored user is other in the next state.
RoleChanges ==
  \E id \in (DOMAIN users) \cap (DOMAIN users') : users'[id].role # users[id].role

\* C16 as the specification has it: a request to PUT /api/users/:id of a
\* requester who is not an admin, with a role in its body, is answered 403
\* and leaves the store untouched.
C16_RoleAnswered403 ==
  \A s \in Active :
    (reqs[s].route = "put" /\ Answered(s) /\ NonAdmin(s) /\ Has(reqs[s].body, "role")) =>
      (reqs[s].status = 403 /\ ~reqs[s].wrote)

\* What holds of the requests to PUT /api/users/:id in every state.
RoleFieldGuarded ==
  \A s \in Active :
    LET r == reqs[s]
    IN (r.route = "put" /\ NonAdmin(s)) =>
         /\ r.svc # NoCall => ~Has(r.svc.updates, "role")
         /\ (Answered(s) /\ Has(r.body, "role")) =>
              /\ r.status \in {400, 403}
              /\ (userIdSchema(r.id).success /\ updateUserSchema(r.body).success) =>
                   r.status = 403
              /\ r.svc = NoCall
              /\ ~r.wrote

\* C16: the role of a stored user changes only in the update of a request
\* whose requester has the role admin; updateUser is never called with a
\* role for a requester who is not an admin; and such a requester's
\* request to PUT /api/users/:id with a role in its body leaves the store
\* untouched and is answered 403 when its id and body pass validation, 400
\* or 403 when they do not.
C16_RoleOnlyByAdmin ==
  /\ []RoleFieldGuarded
  /\ [][RoleChanges =>
          \E s \in Active :
            /\ reqs[s].pc = "updateUser:update"
            /\ reqs[s].user.role = "admin"
            /\ reqs'[s].wrote]_vars

\* A user who is not an admin has asked for the role admin on its own row
\* and is answered 403, the row's role still user.
C16_Witness ==
  \E s \in Active :
    /\ Answered(s)
    /\ reqs[s].route = "put"
    /\ NonAdmin(s)
    /\ reqs[s].body = ("role" :> "admin")
    /\ userIdSchema(reqs[s].id).success
    /\ userIdSchema(reqs[s].id).id = reqs[s].user.id
    /\ reqs[s].user.id \in DOMAIN users
    /\ users[reqs[s].user.id].role = "user"
    /\ reqs[s].status = 403

\* C17: a sign-up whose normalized email is taken, by a row stored before
\* it or by a sign-up that inserted first, creates no user and is answered
\* 409 Email already exists.
C17_TakenEmailAnswered409 ==
  \A s \in Active :
    LET r == reqs[s]
    IN (/\ r.route = "signup"
        /\ Answered(s)
        /\ signupSchema(r.body).success
        /\ ~r.wrote) =>
         (r.status = 409 /\ r.error = "Email already exists")

\* C18: no two rows of the users table have the same email.
C18_EmailsUnique ==
  \A a, b \in DOMAIN users : users[a].email = users[b].email => a = b

\* An update to an email that a sign-up took between the update's check
\* and its statement has been refused by the table, the row of the
\* sign-up in place beside the row the update left as it was.
C18_Witness ==
  \E s \in Active :
    /\ Answered(s)
    /\ reqs[s].route = "put"
    /\ Has(reqs[s].svc.updates, "email")
    /\ reqs[s].svc.id \in DOMAIN users
    /\ WithEmail(reqs[s].svc.updates.email) \ {reqs[s].svc.id} # {}
    /\ users[reqs[s].svc.id].email # reqs[s].svc.updates.email
    /\ reqs[s].status = 500
    /\ Cardinality(DOMAIN users) = 2

\* The codes of the responses authenticateToken writes.
AuthCodes == {"NO_TOKEN", "INVALID_TOKEN", "MALFORMED_TOKEN", "EXPIRED_TOKEN", "AUTH_ERROR"}

\* jwttoken.verify accepts the token cookie of the request of slot s.
Accepted(s) == ~Falsy(reqs[s].token) /\ jwttokenVerify(reqs[s].token).ok

\* C19: a request that has left authenticateToken has been passed on to
\* the next function of its route exactly when it carries a token cookie
\* that jwttoken.verify accepts, and then req.user is the payload of the
\* token; otherwise authenticateToken has answered it with status 401
\* (code NO_TOKEN when there is no token), req.user is not set and no
\* later function of the route has run.
C19_AuthenticateToken ==
  \A s \in Active :
    LET r == reqs[s]
    IN ("authenticateToken" \in Range(Pipeline(r.route)) /\ r.pc # "authenticateToken") =>
         /\ Accepted(s) =>
              /\ r.hasUser
              /\ r.user = r.token.payload
              /\ r.code \notin AuthCodes
         /\ ~Accepted(s) =>
              /\ Answered(s)
              /\ r.status = 401
              /\ r.code \in AuthCodes
              /\ Falsy(r.token) => r.code = "NO_TOKEN"
              /\ ~r.hasUser
              /\ r.svc = NoCall
              /\ ~r.wrote

\* A request with a token the application signed, now expired, has been
\* answered 401 by authenticateToken.
C19_Witness ==
  \E s \in Active :
    /\ Answered(s)
    /\ reqs[s].token.kind = "signed"
    /\ reqs[s].token.expired
    /\ reqs[s].status = 401
    /\ ~reqs[s].hasUser

\* C20: authenticateToken answers a request whose token has expired with
\* status 401 and code EXPIRED_TOKEN, and a request whose token is
\* malformed or has a bad signature with status 401 and code
\* MALFORMED_TOKEN.
C20_CauseInCode ==
  \A s \in Active :
    LET r == reqs[s]
    IN ("authenticateToken" \in Range(Pipeline(r.route)) /\ Answered(s)) =>
         /\ (r.token.kind = "signed" /\ r.token.expired) =>
              (r.status = 401 /\ r.code = "EXPIRED_TOKEN")
         /\ r.token.kind \in {"garbage", "forged"} =>
              (r.status = 401 /\ r.code = "MALFORMED_TOKEN")

\* C21: POST /api/auth/sign-out requires authentication: a sign-out
\* request that came without a token cookie that verifies is answered 401,
\* never 200.
C21_SignOutRequiresAuth ==
  \A s \in Active :
    (reqs[s].route = "signout" /\ Answered(s) /\ ~jwttokenVerify(reqs[s].token).ok)
      => reqs[s].status = 401

\* The request of slot s is a DELETE answered 200.
Deleted(s) == reqs[s].route = "delete" /\ Answered(s) /\ reqs[s].status = 200

\* C22: a DELETE or PUT /api/users/:id whose write finds its target gone
\* (removed by another request since the existence check) is answered 404
\* 'User not found'; a DELETE answered 200 reports the user this request
\* removed, and no two requests report the same user as deleted.
C22_GoneAnswered404 ==
  /\ \A s \in Active :
       (/\ reqs[s].route \in {"put", "delete"} /\ Answered(s)
        /\ reqs[s].thrown = "Cannot read properties of undefined")
         => (reqs[s].status = 404 /\ reqs[s].error = "User not found")
  /\ \A s \in Active :
       Deleted(s) => (reqs[s].wrote /\ DOMAIN reqs[s].sent = {reqs[s].svc.id})
  /\ \A s, t \in Active :
       (Deleted(s) /\ Deleted(t) /\ reqs[s].sent = reqs[t].sent) => s = t

\* The passwords the bodies of sign-up and sign-in carry.
SubmittedPasswords ==
  {body.password :
     body \in {b \in SignupBodies \cup SigninBodies \cup PutBodies : Has(b, "password")}}

\* C23: no object a service returned to a controller and no user object
\* of a response body has a password field, and each row of the users
\* table holds the hash hashPassword made of a submitted password, never
\* the password itself.
C23_NoPasswordLeaves ==
  /\ \A s \in Active :
       /\ \A id \in DOMAIN reqs[s].ret : ~Has(reqs[s].ret[id], "password")
       /\ \A id \in DOMAIN reqs[s].sent : ~Has(reqs[s].sent[id], "password")
  /\ \A id \in DOMAIN users :
       /\ users[id].password \notin SubmittedPasswords
       /\ \E password \in SubmittedPasswords :
            users[id].password = hashPassword(password)

\* C23 (witness): two users are stored with the hashes of their passwords,
\* and a list of the users is answered 200 with both rows as getAllUsers
\* returned them.
C23_Witness ==
  /\ Cardinality(DOMAIN users) = 2
  /\ \E s \in Active :
       /\ reqs[s].route = "list" /\ Answered(s) /\ reqs[s].status = 200
       /\ DOMAIN reqs[s].ret = DOMAIN users
       /\ reqs[s].sent = reqs[s].ret
       /\ \A id \in DOMAIN users : reqs[s].sent[id].email = users[id].email

\* The request of slot s is a sign-in with a body signinSchema accepts,
\* and is answered.
SignInAnswered(s) ==
  /\ reqs[s].route = "signin" /\ Answered(s)
  /\ signinSchema(reqs[s].body).success

\* What the client sees of the answer of slot s.
Response(s) ==
  [status |-> reqs[s].status, error |-> reqs[s].error, code |-> reqs[s].code,
   cookie |-> reqs[s].cookie, user |-> reqs[s].sent]

\* C24: a sign-in with a valid body for an email no user has and one for
\* the email of a user with a wrong password get the same answer: each is
\* answered 401 'Invalid credentials' without a cookie and without a user;
\* the token cookie is set only when authenticateUser returned a user.
C24_SignInIndistinguishable ==
  /\ \A s \in Active :
       (SignInAnswered(s) /\ reqs[s].thrown \in {"User not found", "Invalid password"})
         => Response(s) = [status |-> 401, error |-> "Invalid credentials",
                           code |-> "", cookie |-> "", user |-> NoRows]
  /\ \A s \in Active :
       (reqs[s].route = "signin" /\ reqs[s].cookie # "")
         => /\ reqs[s].cookie = "set" /\ reqs[s].thrown = "" /\ reqs[s].status = 200
            /\ \E id \in DOMAIN reqs[s].ret :
                 /\ reqs[s].ret[id].email = reqs[s].data.email
                 /\ [id |-> id, email |-> reqs[s].ret[id].email,
                     role |-> reqs[s].ret[id].role] \in issued

\* C24 (witness): a user has the email a@x.io, and a sign-in with that
\* email, written A@x.io, and a password that is not the user's is
\* answered 401 without a cookie.
C24_Witness ==
  /\ WithEmail("a@x.io") # {}
  /\ \E s \in Active :
       /\ SignInAnswered(s)
       /\ reqs[s].body.email = "A@x.io"
       /\ reqs[s].thrown = "Invalid password"
       /\ reqs[s].status = 401 /\ reqs[s].cookie = ""

\* The request of slot s went through optionalAuth.
PastOptionalAuth(s) == reqs[s].route = "posts" /\ reqs[s].pc # "optionalAuth"

\* C29: optionalAuth never blocks a request: it has called next() once and
\* sent no response (the request is with the handler that follows, or
\* answered by it), and req.user is set exactly when the request came with
\* a token that verifies, to the payload of that token.
C29_OptionalAuthNeverBlocks ==
  \A s \in Active :
    PastOptionalAuth(s) =>
      /\ reqs[s].nexts = 1
      /\ reqs[s].pc = "getPosts" => reqs[s].status = 0
      /\ Answered(s) => reqs[s].status = 200
      /\ reqs[s].hasUser <=> (~Falsy(reqs[s].token) /\ JwtVerify(reqs[s].token).ok)
      /\ reqs[s].hasUser => reqs[s].user = reqs[s].token.payload
      /\ ~reqs[s].hasUser => reqs[s].user = NoUser

\* C29 (witness): a request that came with an expired token the
\* application signed is with the handler behind optionalAuth, without a
\* user.
C29_Witness ==
  \E s \in Active :
    /\ reqs[s].route = "posts" /\ reqs[s].pc = "getPosts"
    /\ reqs[s].token.kind = "signed" /\ reqs[s].token.expired
    /\ ~reqs[s].hasUser /\ reqs[s].nexts = 1

(***************************************************************************)
(* The script, one operation at a time                                     *)
(***************************************************************************)

\* The files processTemplateFiles() writes for a configuration, in the
\* order of the manifest, the environment files, the Docker assets, the
\* workflows, the base code files and the .gitignore and the README.
WriteOrder(cfg) ==
  <<"package.json", ".env.example", ".env">>
  \o (IF cfg.features.docker
      THEN <<"Dockerfile", "docker-compose.dev.yml", "docker-compose.prod.yml",
             ".dockerignore">>
      ELSE <<>>)
  \o (IF cfg.features.cicd
      THEN [k \in 1..Len(Workflows) |-> ".github/workflows/" \o Workflows[k]]
      ELSE <<>>)
  \o <<"src/index.js", "src/server.js", ".gitignore", "README.md">>

\* What a step of the script does: a prompt is answered, directories are
\* made, a template is read, files are written, child processes are run.
Prompted == projectConfig' # projectConfig \/ lastLine' \notin {lastLine, ""}
MadeDirectories == dirs' \ dirs
ReadTemplate ==
  /\ pc \in {[fn |-> "processPackageJson", at |-> "start"],
             [fn |-> "processEnvFiles", at |-> "start"],
             [fn |-> "processDockerFiles", at |-> "readDev"],
             [fn |-> "processDockerFiles", at |-> "readProd"],
             [fn |-> "processCICDFiles", at |-> "read"]}
  /\ pc' \notin {pc, Exited}
WroteFiles == (written' \ written) \cup {p \in DOMAIN files' : p \notin DOMAIN files}
RanProcesses == Len(execLog') - Len(execLog)

\* A step of a run does at most one operation: one prompt, one directory
\* with those above it, one read, one write or one child process.
OneOperation ==
  /\ Cardinality({k \in 1..5 :
                    <<Prompted, MadeDirectories # {}, ReadTemplate, WroteFiles # {},
                      RanProcesses # 0>>[k]}) <= 1
  /\ \E dir \in MadeDirectories \cup {""} :
       MadeDirectories \subseteq {dir} \cup Parents(dir)
  /\ Cardinality(WroteFiles) <= 1
  /\ RanProcesses <= 1

\* The files written so far are the first files of WriteOrder.
WrittenInOrder ==
  \E k \in 0..Len(WriteOrder(projectConfig)) :
    written = {WriteOrder(projectConfig)[i] : i \in 1..k}

\* C25: no step of a run does more than one prompt, directory creation,
\* file read or write or child process, so that no two of them are
\* outstanding at a time, and the files of step 3 are written in the fixed
\* order of WriteOrder: the files written so far are the first files of
\* that order, so that no step writes before the writes of the step before
\* it are done.
C25_OneAtATimeInOrder ==
  /\ []WrittenInOrder
  /\ [][pc # Exited => OneOperation]_vars

\* C25 (witness): Docker and the workflows are on, the manifest, the
\* environment files, the Docker assets and the workflows are written, and
\* the script is about to write src/index.js.
C25_Witness ==
  /\ projectConfig.features.docker
  /\ projectConfig.features.cicd
  /\ At("createBaseCodeFiles", "start")
  /\ written = {WriteOrder(projectConfig)[i] : i \in 1..10}

\* The directories of the list createProjectStructure has made in this
\* run, once it has returned.
MadeThisRun ==
  IF Logged("return", "createProjectStructure")
  THEN {directories[k] : k \in 1..Len(directories)}
  ELSE {}

\* The file in a subdirectory the script is about to write, if it is about
\* to write one.
SubdirectoryWriteAhead ==
  IF At("createBaseCodeFiles", "start") THEN {"src/index.js"}
  ELSE IF At("createBaseCodeFiles", "server") THEN {"src/server.js"}
  ELSE IF pc.fn = "processCICDFiles" /\ pc.at \in {"read", "write"}
  THEN {".github/workflows/" \o Workflows[loopIdx]}
  ELSE {}

\* C26: whenever step 3 writes, or is about to write, a file into a
\* subdirectory (src/index.js, src/server.js, a workflow), the directories
\* above the file exist and were made by createProjectStructure in this
\* run, whatever the feature flags are; a workflow is written only in a run
\* that made .github/workflows.
C26_SubdirectoryBeforeWrite ==
  \A path \in written \cup SubdirectoryWriteAhead :
    \A dir \in Parents(path) : dir \in dirs /\ dir \in MadeThisRun

\* C26 (witness): with the workflows on and Docker off, a workflow is
\* written under .github/workflows and the script is about to write
\* src/index.js.
C26_Witness ==
  /\ projectConfig.features.cicd
  /\ ~projectConfig.features.docker
  /\ ".github/workflows/" \o Workflows[1] \in written
  /\ ".github/workflows" \in MadeThisRun
  /\ At("createBaseCodeFiles", "start")

\* Step 2 or step 3 is running: the script is in createProjectStructure,
\* in processTemplateFiles or in a function it calls.
GeneratingFiles ==
  pc.fn \in {"createProjectStructure", "processTemplateFiles"} \cup TemplateFunctions

\* C27: projectConfig.name is not empty in any state in which step 2 or
\* step 3 is running, whatever the answers to the prompts were.
C27_NamePresent == GeneratingFiles => projectConfig.name # ""

\* The files each function of step 3 writes.
FilesOf(fn) ==
  CASE fn = "processPackageJson" -> {"package.json"}
    [] fn = "processEnvFiles" -> {".env.example", ".env"}
    [] fn = "processDockerFiles" ->
         {"Dockerfile", "docker-compose.dev.yml", "docker-compose.prod.yml",
          ".dockerignore"}
    [] fn = "processCICDFiles" ->
         {".github/workflows/" \o Workflows[k] : k \in 1..Len(Workflows)}
    [] fn = "createBaseCodeFiles" -> {"src/index.js", "src/server.js"}
    [] fn = "createConfigFiles" -> {".gitignore", "README.md"}
    [] OTHER -> {}

\* The functions of step 3 that returned before fn was called, and those
\* called after it, under the configuration of the run.
StepsBefore(fn) ==
  {TemplateCalls(projectConfig)[k] : k \in 1..(IndexOf(TemplateCalls(projectConfig), fn) - 1)}
StepsAfter(fn) ==
  {TemplateCalls(projectConfig)[k] :
     k \in (IndexOf(TemplateCalls(projectConfig), fn) + 1)..Len(TemplateCalls(projectConfig))}

\* The process has ended on a failure of step 2 or of step 3.
FailedExit == pc = Exited /\ failedAt.fn \in {"createProjectStructure"} \cup TemplateFunctions

\* What is on disk when the process has ended on such a failure: the
\* directories made and the files written before it, and no file of a
\* later step.
LeftAsItWas ==
  FailedExit =>
    /\ exitCode = 1
    /\ written \subseteq DOMAIN files
    /\ failedAt.fn = "createProjectStructure" =>
         /\ {directories[k] : k \in 1..(loopIdx - 1)} \subseteq dirs
         /\ written = {}
    /\ failedAt.fn \in TemplateFunctions =>
         /\ {directories[k] : k \in 1..Len(directories)} \subseteq dirs
         /\ \A fn \in StepsBefore(failedAt.fn) : FilesOf(fn) \subseteq written
         /\ \A fn \in StepsAfter(failedAt.fn) : FilesOf(fn) \cap written = {}

\* No step removes a directory or a file, and no step changes the content
\* of a file other than the write of that file.
NothingUndone ==
  /\ dirs \subseteq dirs'
  /\ \A path \in DOMAIN files :
       /\ path \in DOMAIN files'
       /\ files'[path] # files[path] => path \in written' \ written

\* C28: a failure of step 2 or of step 3 ends the process without cleanup
\* or rollback: the directories made and the files written by the steps
\* that completed are on disk at the exit, each file with the content
\* written, and no file of a later step is written.
C28_NoRollback ==
  /\ []LeftAsItWas
  /\ [][NothingUndone]_vars

\* C28 (witness): the run has ended with status 1 on a failure in
\* createBaseCodeFiles, with Docker off and the workflows on: the manifest,
\* the environment files and the workflows are on disk, the .gitignore and
\* the README are not.
C28_Witness ==
  /\ FailedExit
  /\ ~firstRun.done
  /\ failedAt.fn = "createBaseCodeFiles"
  /\ StepsBefore(failedAt.fn) = {"processPackageJson", "processEnvFiles", "processCICDFiles"}
  /\ FilesOf("processCICDFiles") \subseteq DOMAIN files
  /\ "package.json" \in DOMAIN files
  /\ ".gitignore" \notin DOMAIN files

====
